---- MODULE Spec2Model ----
(***************************************************************************)
(* Model of the tile-based flood-fill search of                            *)
(* src/gff/generate/floodmaps.py: frontier seeding                         *)
(* (create_initial_tiles), the search loop of                              *)
(* progressively_grow_floodmaps and the lazily filled offset-lattice       *)
(* logit caches (get_adjacent_logits).                                     *)
(*                                                                         *)
(* A tile of a lattice is identified with its coordinate <<x, y>>; a       *)
(* lattice (numpy array of polygons shaped [W, H]) with its shape <<W, H>>.*)
(* A classified tile (flood_cls) is represented by its per-class pixel     *)
(* counts, a logit array by the token "logits", Python's None by "None".   *)
(***************************************************************************)
EXTENDS Integers, Sequences, FiniteSets, TLC

(***************************************************************************)
(* Bounds of the model                                                     *)
(***************************************************************************)
\* widest / tallest primary lattice explored by the search
MaxW == 4
MaxH == 2
\* largest number of cells of a primary lattice explored by the search
MaxCells == 4
\* largest value of the max_tiles argument of the search
MaxTilesArg == 3
\* pixels of one tile (tile_size * tile_size in the code)
TilePixels == 20
\* most prescribed footprints given to the search
MaxPrescribed == 1
\* widest / tallest lattice given to the seeder, longest river, most rivers
MaxSeedW == 4
MaxSeedH == 2
MaxRiverLen == 2
MaxRivers == 2
\* largest min_river_size / max_tiles arguments given to the seeder
MaxSeedArg == 2
\* largest pixel coordinate of a footprint and largest tile size given to
\* the grid builder
MaxGridPx == 10
MaxGridTile == 3
\* most image groups given to create_flood_maps
MaxGroups == 3
\* largest height and width of the logits given to the blending
MaxTile == 6
\* largest side of the raster given to the postprocessing
MaxSide == 5
\* most input tensors and most near-zero pixels given to the edge heuristic
MaxTensors == 2
MaxZeros == 3

(***************************************************************************)
(* Program constants                                                       *)
(***************************************************************************)
\* create_initial_tiles(..., min_river_size=500, max_tiles=200)
SearchMinRiverSize == 500
SearchSeedMaxTiles == 200
\* add=3 of the expansion on flood, add=3 of the centre fallback, add=2 of
\* the seeding margin
FloodAdd == 3
CentreAdd == 3
SeedAdd == 2

Abs(n) == IF n < 0 THEN -n ELSE n
Max(a, b) == IF a >= b THEN a ELSE b
Min(a, b) == IF a <= b THEN a ELSE b

\* the elements of a list
Elems(s) == {s[i] : i \in 1..Len(s)}
\* a list without repetitions
NoDup(s) == \A i, j \in 1..Len(s) : s[i] = s[j] => i = j
\* Python's s[:n] for n >= 0
Take(s, n) == SubSeq(s, 1, Min(n, Len(s)))

\* the sub-list of s at the indices idx, in order
KeepIdx(s, idx) ==
  LET nth(i) == CHOOSE k \in idx : Cardinality({j \in idx : j < k}) = i - 1
  IN [i \in 1..Cardinality(idx) |-> s[nth(i)]]

\* all coordinates of an array shaped <<W, H>>
Cells(shape) == (0..(shape[1] - 1)) \X (0..(shape[2] - 1))
InBounds(c, shape) == c[1] >= 0 /\ c[2] >= 0 /\ c[1] < shape[1] /\ c[2] < shape[2]

\* numpy's mask.nonzero() zipped: the True coordinates of an array shaped
\* <<W, H>> in row-major order (first index slowest)
NonZero(mask, shape) ==
  LET n == shape[1] * shape[2]
      all == [i \in 1..n |-> <<(i - 1) \div shape[2], (i - 1) % shape[2]>>]
      Keep(c) == c \in mask
  IN SelectSeq(all, Keep)

(***************************************************************************)
(* sel_new_tiles_big_window: itertools.product(range(xlo, xhi),            *)
(* range(ylo, yhi)) as a list                                              *)
(***************************************************************************)
\* variant: the window without the max(0, .) / min(size, .) clipping
sel_new_tiles_unclipped(tile_x, tile_y, xsize, ysize, add) ==
  LET xlo == tile_x - add
      xhi == tile_x + add
      ylo == tile_y - add
      yhi == tile_y + add
      nx == Max(0, xhi - xlo)
      ny == Max(0, yhi - ylo)
  IN [i \in 1..(nx * ny) |-> <<xlo + ((i - 1) \div ny), ylo + ((i - 1) % ny)>>]

sel_new_tiles_big_window(tile_x, tile_y, xsize, ysize, add) ==
  LET xlo == Max(0, tile_x - add)
      xhi == Min(xsize, tile_x + add)
      ylo == Max(0, tile_y - add)
      yhi == Min(ysize, tile_y + add)
      nx == Max(0, xhi - xlo)
      ny == Max(0, yhi - ylo)
  IN [i \in 1..(nx * ny) |-> <<xlo + ((i - 1) \div ny), ylo + ((i - 1) % ny)>>]

(***************************************************************************)
(* Frontier Seeder.  A river is a record                                   *)
(*   riv_tc_usu : its flow-accumulation size                               *)
(*   in_geom    : whether its geometry intersects the validity polygon     *)
(*   cells      : the lattice tiles its geometry intersects                *)
(***************************************************************************)
tiles_along_river_within_geom(rivers, tile_grid, min_river_size, cap) ==
  LET river == {r \in rivers : r.in_geom}
      sized == {r \in river : r.riv_tc_usu > min_river_size}
      intersects == (UNION {r.cells : r \in sized}) \cap Cells(tile_grid)
  IN IF river = {} THEN << >>
     ELSE Take(NonZero(intersects, tile_grid), cap)

\* the rule that wins and the tiles it selects (before the margin expansion)
initial_selection(rivers, tile_grid, min_river_size, cap) ==
  LET t1 == tiles_along_river_within_geom(rivers, tile_grid, min_river_size, cap)
      t2 == tiles_along_river_within_geom(rivers, tile_grid, 0, min_river_size)
      gw == tile_grid[1]
      gh == tile_grid[2]
  IN IF Len(t1) > 0 THEN [rule |-> 1, sel |-> t1]
     ELSE IF Len(t2) > 0 THEN [rule |-> 2, sel |-> t2]
     ELSE [rule |-> 3,
           sel |-> sel_new_tiles_big_window(gw \div 2, gh \div 2, gw, gh, CentreAdd)]

\* for tile in new_tiles: if tile not in tiles: tiles.append(tile)
\* (an element is appended unless it is in the list or was appended just before)
append_absent(tiles_, new_tiles) ==
  LET keep == {i \in 1..Len(new_tiles) :
                 /\ new_tiles[i] \notin Elems(tiles_)
                 /\ \A j \in 1..(i - 1) : new_tiles[j] # new_tiles[i]}
  IN tiles_ \o KeepIdx(new_tiles, keep)

\* the windows visited by: for tile_x, tile_y in tiles.copy(): new_tiles = ...
RECURSIVE margin_windows(_, _, _)
margin_windows(copy, i, tile_grid) ==
  IF i > Len(copy) THEN << >>
  ELSE sel_new_tiles_big_window(copy[i][1], copy[i][2],
                                tile_grid[1], tile_grid[2], SeedAdd)
       \o margin_windows(copy, i + 1, tile_grid)

\* the margin expansion: the nested loops append, in order, every tile of
\* every window that is not yet in the list
expand_margin(tiles_, tile_grid) ==
  append_absent(tiles_, margin_windows(tiles_, 1, tile_grid))

create_initial_tiles(rivers, tile_grid, min_river_size, cap) ==
  LET s == initial_selection(rivers, tile_grid, min_river_size, cap).sel
  IN expand_margin(s, tile_grid)


(***************************************************************************)
(* get_grid_idx.  The prescribed footprints are given by the percentage of *)
(* each lattice cell's area that their union covers: a set of records      *)
(* [cell, pct].  A cell is included when the intersection area exceeds     *)
(* 0.01 * tile_area.                                                       *)
(***************************************************************************)
get_grid_idx(grid, tile_geoms) ==
  LET tiles_incl == {c \in Cells(grid) :
                       \E g \in tile_geoms : g.cell = c /\ g.pct > 1}
  IN NonZero(tiles_incl, grid)

(***************************************************************************)
(* The four lattices of mk_grid, by shape: the primary lattice and the     *)
(* lattices shifted by half a tile in x, in y and in both, each one tile   *)
(* smaller in the shifted dimension(s).                                    *)
(***************************************************************************)
OffsetKeys == {<<1, 0>>, <<0, 1>>, <<1, 1>>}

mk_grid_shapes(gw, gh) ==
  [k \in {<<0, 0>>} \cup OffsetKeys |->
     <<Max(0, gw - k[1]), Max(0, gh - k[2])>>]

(***************************************************************************)
(* IEEE 754 binary64 arithmetic, as numpy evaluates allclose.  A float64   *)
(* is a record [m |-> digits, e |-> exponent] of value m * 2^e, m being a  *)
(* natural number given by its digits in base 2^14, the lowest first.      *)
(* Results are rounded to 53 significant bits, ties to even; the values at *)
(* hand are far from overflow and from the subnormal range.  The           *)
(* operations are functions, so that an argument is a value when the       *)
(* operation is applied.                                                   *)
(***************************************************************************)
\* the significant bits of a float64
MantissaBits == 53

\* the digits of a natural number have 14 bits: a product of two fits an int
LimbBits == 14
Limb == 2^LimbBits

\* 1e8: the resolutions are given in units of 1e-8
DecimalScale == 10^8

\* atol = 1e-8 and rtol = 1e-5 (the defaults of np.allclose) in units of 1e-8
AtolUnits == 1
RtolUnits == 1000

Digits == Seq(Nat)
Float64 == [m : Digits, e : Int]

limb_at(a, i) == IF i >= 1 /\ i <= Len(a) THEN a[i] ELSE 0

nat_trim[a \in Digits] ==
  IF a # << >> /\ a[Len(a)] = 0 THEN nat_trim[SubSeq(a, 1, Len(a) - 1)] ELSE a

\* the digits of the number whose columns, carries pending, are cols
nat_carry[cols \in Digits, i \in Nat, c \in Nat] ==
  IF i > Len(cols)
    THEN (IF c = 0 THEN << >> ELSE <<c % Limb>> \o nat_carry[cols, i, c \div Limb])
  ELSE <<(cols[i] + c) % Limb>> \o nat_carry[cols, i + 1, (cols[i] + c) \div Limb]

nat_norm[cols \in Digits] == nat_trim[nat_carry[cols, 1, 0]]

nat_add[a \in Digits, b \in Digits] ==
  nat_norm[[i \in 1..Max(Len(a), Len(b)) |-> limb_at(a, i) + limb_at(b, i)]]

\* a - b for a >= b
nat_borrow[a \in Digits, b \in Digits, i \in Nat, borrow \in {0, 1}] ==
  IF i > Len(a) THEN << >>
  ELSE IF a[i] - limb_at(b, i) - borrow < 0
    THEN <<a[i] - limb_at(b, i) - borrow + Limb>> \o nat_borrow[a, b, i + 1, 1]
  ELSE <<a[i] - limb_at(b, i) - borrow>> \o nat_borrow[a, b, i + 1, 0]

nat_sub[a \in Digits, b \in Digits] == nat_trim[nat_borrow[a, b, 1, 0]]

\* a < b for numbers without leading zeros
nat_less[a \in Digits, b \in Digits] ==
  IF Len(a) # Len(b) THEN Len(a) < Len(b)
  ELSE \E i \in 1..Len(a) : a[i] < b[i] /\ \A j \in (i + 1)..Len(a) : a[j] = b[j]

\* the k-th column of a * b, for factors of at most four digits
nat_col[a \in Digits, b \in Digits, k \in Nat, i \in Nat] ==
  IF i > Len(a) THEN 0
  ELSE a[i] * limb_at(b, k + 1 - i) + nat_col[a, b, k, i + 1]

nat_mul[a \in Digits, b \in Digits] ==
  nat_norm[[k \in 1..(Len(a) + Len(b)) |-> nat_col[a, b, k, 1]]]

\* a * 2^k
nat_shl[a \in Digits, k \in Nat] ==
  nat_norm[[i \in 1..(k \div LimbBits) |-> 0]
           \o [i \in 1..Len(a) |-> a[i] * 2^(k % LimbBits)]]

\* the bit of weight 2^j
nat_bit(a, j) == (limb_at(a, j \div LimbBits + 1) \div 2^(j % LimbBits)) % 2

\* the number of significant bits of a number without leading zeros
nat_len[a \in Digits] ==
  IF a = << >> THEN 0
  ELSE LimbBits * (Len(a) - 1)
       + (CHOOSE k \in 1..LimbBits : 2^(k - 1) <= a[Len(a)] /\ a[Len(a)] < 2^k)

\* a \div 2^d
nat_shr[a \in Digits, d \in Nat] ==
  nat_trim[[i \in 1..(Len(a) - (d \div LimbBits)) |->
              (a[(d \div LimbBits) + i] \div 2^(d % LimbBits))
              + (limb_at(a, (d \div LimbBits) + i + 1) % 2^(d % LimbBits))
                * 2^(LimbBits - (d % LimbBits))]]

F64Zero == [m |-> << >>, e |-> 0]
F64One == [m |-> <<1>>, e |-> 0]

\* the number of zero digits, and of zero bits of a digit, at the low end
nat_low_zeros[a \in Digits] ==
  CHOOSE k \in 0..(Len(a) - 1) : a[k + 1] # 0 /\ \A i \in 1..k : a[i] = 0
limb_low_zeros[n \in Nat] ==
  CHOOSE j \in 0..(LimbBits - 1) : n % 2^j = 0 /\ n % 2^(j + 1) # 0

\* the same value with an odd m, or with m and e zero: equal values are
\* equal records
f64_norm[m \in Digits, e \in Int] ==
  IF m = << >> THEN F64Zero
  ELSE [m |-> nat_shr[m, LimbBits * nat_low_zeros[m]
                         + limb_low_zeros[m[nat_low_zeros[m] + 1]]],
        e |-> e + LimbBits * nat_low_zeros[m]
                + limb_low_zeros[m[nat_low_zeros[m] + 1]]]

\* t * 2^e with the d lowest bits of t rounded away, ties to even
f64_drop[t \in Digits, e \in Int, d \in Nat] ==
  IF /\ nat_bit(t, d - 1) = 1
     /\ (nat_bit(t, d) = 1 \/ \E j \in 0..(d - 2) : nat_bit(t, j) = 1)
    THEN f64_norm[nat_add[nat_shr[t, d], <<1>>], e + d]
  ELSE f64_norm[nat_shr[t, d], e + d]

\* m * 2^e rounded to 53 significant bits, m without leading zeros
f64_round[m \in Digits, e \in Int] ==
  IF nat_len[m] <= MantissaBits THEN f64_norm[m, e]
  ELSE f64_drop[m, e, nat_len[m] - MantissaBits]

\* acc followed by the binary digits of r / den, four at a time, until the
\* quotient is exact or has more than 53 significant bits, a last bit 1 then
\* standing for the digits that follow
f64_digits[r \in Nat, den \in Nat, acc \in Digits, f \in Nat] ==
  IF r = 0 THEN [m |-> acc, e |-> -f]
  ELSE IF nat_len[acc] > MantissaBits
    THEN [m |-> nat_add[nat_shl[acc, 1], <<1>>], e |-> -(f + 1)]
  ELSE f64_digits[(16 * r) % den, den,
                  nat_add[nat_shl[acc, 4], nat_norm[<<(16 * r) \div den>>]],
                  f + 4]

f64_of[d \in Float64] == f64_round[d.m, d.e]

\* the float64 a / b of two integers that are float64 themselves
f64_div[a \in Nat, b \in Nat] ==
  f64_of[f64_digits[a % b, b, nat_norm[<<a \div b>>], 0]]

\* the float64 nearest to n * 1e-8: what the decimal literal reads as
f64[n \in Nat] == f64_div[n, DecimalScale]

\* the float64 that is the integer n
f64_int[n \in Nat] == f64_round[nat_norm[<<n>>], 0]

f64_add[x \in Float64, y \in Float64] ==
  f64_round[nat_add[nat_shl[x.m, x.e - Min(x.e, y.e)],
                    nat_shl[y.m, y.e - Min(x.e, y.e)]],
            Min(x.e, y.e)]

\* abs(a - b) * 2^e for two numbers without leading zeros
f64_diff[a \in Digits, b \in Digits, e \in Int] ==
  f64_round[IF nat_less[a, b] THEN nat_sub[b, a] ELSE nat_sub[a, b], e]

\* abs(x - y)
f64_abs_sub[x \in Float64, y \in Float64] ==
  f64_diff[nat_shl[x.m, x.e - Min(x.e, y.e)],
           nat_shl[y.m, y.e - Min(x.e, y.e)],
           Min(x.e, y.e)]

f64_mul[x \in Float64, y \in Float64] == f64_round[nat_mul[x.m, y.m], x.e + y.e]

\* x + y and abs(x - y) as real numbers, not rounded
real_add[x \in Float64, y \in Float64] ==
  f64_norm[nat_add[nat_shl[x.m, x.e - Min(x.e, y.e)],
                   nat_shl[y.m, y.e - Min(x.e, y.e)]],
           Min(x.e, y.e)]
real_diff[a \in Digits, b \in Digits, e \in Int] ==
  f64_norm[IF nat_less[a, b] THEN nat_sub[b, a] ELSE nat_sub[a, b], e]
real_abs_sub[x \in Float64, y \in Float64] ==
  real_diff[nat_shl[x.m, x.e - Min(x.e, y.e)],
            nat_shl[y.m, y.e - Min(x.e, y.e)],
            Min(x.e, y.e)]

\* x <= y
f64_le[x \in Float64, y \in Float64] ==
  ~nat_less[nat_shl[y.m, y.e - Min(x.e, y.e)], nat_shl[x.m, x.e - Min(x.e, y.e)]]

\* abs(x - y) <= atol + rtol * abs(y) for two numbers given in units of 1e-8
isclose(x, y) ==
  f64_le[IF (x < 0) = (y < 0) THEN f64_abs_sub[f64[Abs(x)], f64[Abs(y)]]
                              ELSE f64_add[f64[Abs(x)], f64[Abs(y)]],
         f64_add[f64[AtolUnits], f64_mul[f64[RtolUnits], f64[Abs(y)]]]]

(***************************************************************************)
(* check_tifs_match.  An input raster is a record                          *)
(*   res : <<t[0], t[4]>> of its transform, in units of 1e-8               *)
(*   crs : its coordinate reference system                                 *)
(* np.allclose(a, b) is abs(a - b) <= atol + rtol * abs(b) elementwise     *)
(* with atol = 1e-8 and rtol = 1e-5, every operation done in float64.      *)
(***************************************************************************)
allclose(a, b) == \A i \in 1..Len(a) : isclose(a[i], b[i])

\* variant: the check without the CRS assertion
check_tifs_match_res_only(tifs) ==
  LET res == tifs[1].res
  IN IF \A i \in 2..Len(tifs) : allclose(tifs[i].res, res)
       THEN "ok" ELSE "AssertionError"

\* "ok", or the exception of the first assertion that fails
check_tifs_match(tifs) ==
  LET res == tifs[1].res
  IN IF ~(\A i \in 2..Len(tifs) : allclose(tifs[i].res, res))
       THEN "AssertionError"
     ELSE IF ~(\A i \in 2..Len(tifs) : tifs[i].crs = tifs[1].crs)
       THEN "AssertionError"
     ELSE "ok"

(***************************************************************************)
(* mk_grid in pixel space.  The bounds of geom_in_px are given in half     *)
(* pixels, <<xlo, ylo, xhi, yhi>>; a lattice is a record                   *)
(*   shape  : <<W, H>>, the number of tiles in x and y                     *)
(*   origin : pixel coordinates of the low corner of tile (0, 0)           *)
(*   box    : <<box_width, box_height>> in pixels                          *)
(* and the tile at (x, y) is the pixel box starting at                     *)
(* origin + (x, y) * box.                                                  *)
(***************************************************************************)
\* math.ceil and math.floor of a coordinate given in half pixels
ceil_px(n) == -((-n) \div 2)
floor_px(n) == n \div 2

\* util.mk_box_grid(width, height, x_offset, y_offset, box_width, box_height)
mk_box_grid(width, height, x_offset, y_offset, box_width, box_height) ==
  [shape |-> <<Max(0, width \div box_width), Max(0, height \div box_height)>>,
   origin |-> <<x_offset, y_offset>>,
   box |-> <<box_width, box_height>>]

\* <<xlo, ylo, xhi, yhi>> in pixels of the tile at coordinate c of a lattice
tile_box(grid, c) ==
  <<grid.origin[1] + c[1] * grid.box[1],
    grid.origin[2] + c[2] * grid.box[2],
    grid.origin[1] + (c[1] + 1) * grid.box[1],
    grid.origin[2] + (c[2] + 1) * grid.box[2]>>

\* variant: the offset lattices shifted by a whole tile
mk_grid_whole_tile_shift(bounds, gridsize) ==
  LET xlo == ceil_px(bounds[1]) + 1
      ylo == ceil_px(bounds[2]) + 1
      xhi == floor_px(bounds[3]) - 1
      yhi == floor_px(bounds[4]) - 1
      w_px == xhi - xlo
      h_px == yhi - ylo
      s == gridsize
  IN [grids |->
        (<<0, 0>> :> mk_box_grid(w_px, h_px, xlo, ylo, s, s))
        @@ (<<1, 0>> :> mk_box_grid(w_px - s, h_px, xlo + s, ylo, s, s))
        @@ (<<0, 1>> :> mk_box_grid(w_px, h_px - s, xlo, ylo + s, s, s))
        @@ (<<1, 1>> :> mk_box_grid(w_px - s, h_px - s, xlo + s, ylo + s, s, s)),
      pixel_aligned_geom |-> <<xlo, ylo, xhi, yhi>>]

\* the four lattices and the pixel-aligned footprint
mk_grid(bounds, gridsize) ==
  LET xlo == ceil_px(bounds[1]) + 1
      ylo == ceil_px(bounds[2]) + 1
      xhi == floor_px(bounds[3]) - 1
      yhi == floor_px(bounds[4]) - 1
      w_px == xhi - xlo
      h_px == yhi - ylo
      s == gridsize
  IN [grids |->
        (<<0, 0>> :> mk_box_grid(w_px, h_px, xlo, ylo, s, s))
        @@ (<<1, 0>> :> mk_box_grid(w_px - s, h_px, xlo + s \div 2, ylo, s, s))
        @@ (<<0, 1>> :> mk_box_grid(w_px, h_px - s, xlo, ylo + s \div 2, s, s))
        @@ (<<1, 1>> :> mk_box_grid(w_px - s, h_px - s, xlo + s \div 2, ylo + s \div 2, s, s)),
      pixel_aligned_geom |-> <<xlo, ylo, xhi, yhi>>]

(***************************************************************************)
(* _weight_matrices and average_logits_towards_edges.  An array shaped     *)
(* (h, w) is a function on the pixels <<y, x>>; one channel of the logits  *)
(* is modelled, the code treating every channel alike.  The weights and    *)
(* the blended values are float64, as RegularGridInterpolator and numpy    *)
(* compute them; the logits are integers given as float64 arrays;          *)
(* coordinates of the interpolation are in half pixels.                    *)
(***************************************************************************)
Pixels(h, w) == (0..(h - 1)) \X (0..(w - 1))

\* (0, n // 2 - 0.5, n - 1), in half pixels
spaces(n) == <<0, 2 * (n \div 2) - 1, 2 * n - 2>>

\* RegularGridInterpolator accepts strictly ascending points only
strictly_ascending(k) == k[1] < k[2] /\ k[2] < k[3]

\* the interval of the three points that holds pixel p
interval_of(n, p) == IF 2 * p <= spaces(n)[2] THEN 1 ELSE 2

\* norm_distances of the interpolator: (x - grid[i]) / (grid[i + 1] - grid[i])
\* for the interval i holding pixel p
norm_distance(n, p) ==
  f64_div[2 * p - spaces(n)[interval_of(n, p)],
          spaces(n)[interval_of(n, p) + 1] - spaces(n)[interval_of(n, p)]]

\* linear interpolation along one axis: the weights 1 - y and y of the low
\* and the high end of the interval holding p
end_weights(n, p) ==
  <<f64_abs_sub[F64One, norm_distance(n, p)], norm_distance(n, p)>>

\* values[i, j] * wy * wx, one vertex of the interpolation
vertex_term(v, wy, wx) == f64_mul[f64_mul[f64_int[v], wy], wx]

\* interp(lores) evaluated at pixel (y, x): the four vertices of the cell
\* holding the pixel, added in the order of the interpolator
interp(lores, h, w, y, x) ==
  LET iy == interval_of(h, y)
      ix == interval_of(w, x)
      wy == end_weights(h, y)
      wx == end_weights(w, x)
  IN f64_add[f64_add[f64_add[f64_add[F64Zero,
       vertex_term(lores[iy][ix], wy[1], wx[1])],
       vertex_term(lores[iy][ix + 1], wy[1], wx[2])],
       vertex_term(lores[iy + 1][ix], wy[2], wx[1])],
       vertex_term(lores[iy + 1][ix + 1], wy[2], wx[2])]

\* the 3x3 control grid that is 1 at (i, j) and 0 elsewhere
control_grid(i, j) ==
  [a \in 1..3 |-> [b \in 1..3 |-> IF a = i /\ b = j THEN 1 ELSE 0]]

\* result[i, j] of _weight_matrices (indices from 1)
weight_matrices(h, w) ==
  [i \in 1..3 |-> [j \in 1..3 |->
     [p \in Pixels(h, w) |-> interp(control_grid(i, j), h, w, p[1], p[2])]]]

\* the eight neighbours: the part of the rows and of the columns of its
\* slice, and the index of its weight matrix
Dirs == {"tl", "up", "tr", "le", "ri", "bl", "do", "br"}

slice_parts ==
  [tl |-> <<"lo", "lo">>, up |-> <<"lo", "all">>, tr |-> <<"lo", "hi">>,
   le |-> <<"all", "lo">>, ri |-> <<"all", "hi">>,
   bl |-> <<"hi", "lo">>, do |-> <<"hi", "all">>, br |-> <<"hi", "hi">>]

weight_index ==
  [tl |-> <<1, 1>>, up |-> <<1, 2>>, tr |-> <<1, 3>>,
   le |-> <<2, 1>>, ri |-> <<2, 3>>,
   bl |-> <<3, 1>>, do |-> <<3, 2>>, br |-> <<3, 3>>]

\* variant: the high half starting one pixel late
part_range_late(part, n) ==
  IF part = "lo" THEN 0..((n \div 2) - 1)
  ELSE IF part = "hi" THEN ((n \div 2) + 1)..(n - 1)
  ELSE 0..(n - 1)

\* slice(0, n2), slice(n2, None), slice(None) along an axis of length n
part_range(part, n) ==
  IF part = "lo" THEN 0..((n \div 2) - 1)
  ELSE IF part = "hi" THEN (n \div 2)..(n - 1)
  ELSE 0..(n - 1)

\* the slice of the neighbour that is laid on a slice: the opposite part
mirror(part) == IF part = "lo" THEN "hi" ELSE IF part = "hi" THEN "lo" ELSE "all"

\* the pixels of the slice of direction d
slice_of(d, h, w) ==
  part_range(slice_parts[d][1], h) \X part_range(slice_parts[d][2], w)

\* numpy broadcasting of a source axis of b elements onto a target axis of
\* a elements: possible when they are equal or the source has one element
broadcasts(a, b) == a = b \/ (b = 1 /\ a >= 1)

\* the position in the source axis laid on position p of the target part
source_pos(part, n, p) ==
  LET tgt == part_range(part, n)
      src == part_range(mirror(part), n)
      min(S) == CHOOSE m \in S : \A k \in S : m <= k
  IN IF Cardinality(src) = 1 THEN min(src) ELSE min(src) + (p - min(tgt))

\* out[:, slc] += tile[:, islc] * weight[slc] can be evaluated
term_fits(d, h, w) ==
  /\ broadcasts(Cardinality(part_range(slice_parts[d][1], h)),
                Cardinality(part_range(mirror(slice_parts[d][1]), h)))
  /\ broadcasts(Cardinality(part_range(slice_parts[d][2], w)),
                Cardinality(part_range(mirror(slice_parts[d][2]), w)))

\* variant: an absent neighbour stood in for by the tile's own logits
neighbour_term_own(lg, adj, d, p) ==
  LET h == lg.h
      w == lg.w
      wi == weight_index[d]
      src == <<source_pos(slice_parts[d][1], h, p[1]),
               source_pos(slice_parts[d][2], w, p[2])>>
  IN IF p \notin slice_of(d, h, w) THEN F64Zero
     ELSE IF ~adj[d].present
       THEN f64_mul[f64_int[lg.v[p]], weight_matrices(h, w)[wi[1]][wi[2]][p]]
     ELSE f64_mul[f64_int[adj[d].v[src]], weight_matrices(h, w)[wi[1]][wi[2]][p]]

\* what out[:, slices[d]] += f(adjacent[d], slices[d], mirrored slice,
\* weights[i, j]) adds at pixel p: nothing outside the slice or for an
\* absent neighbour
neighbour_term(lg, adj, d, p) ==
  LET h == lg.h
      w == lg.w
      wi == weight_index[d]
      src == <<source_pos(slice_parts[d][1], h, p[1]),
               source_pos(slice_parts[d][2], w, p[2])>>
  IN IF p \notin slice_of(d, h, w) THEN F64Zero
     ELSE IF ~adj[d].present THEN F64Zero
     ELSE f64_mul[f64_int[adj[d].v[src]], weight_matrices(h, w)[wi[1]][wi[2]][p]]

\* the sum of a list of float64, accumulated from 0 in the order of the list
f64_sum[terms \in Seq(Float64)] ==
  IF terms = << >> THEN F64Zero
  ELSE f64_add[f64_sum[SubSeq(terms, 1, Len(terms) - 1)], terms[Len(terms)]]

\* the blended logits (out, zeros to begin with, after the nine += of lines
\* 667-675), or the exception raised by the interpolator (points not
\* ascending) or by numpy (shapes that do not broadcast)
average_logits_towards_edges(lg, adj) ==
  LET h == lg.h
      w == lg.w
  IN IF ~(strictly_ascending(spaces(h)) /\ strictly_ascending(spaces(w)))
       THEN [raised |-> "ValueError", out |-> << >>]
     ELSE IF \E d \in Dirs : adj[d].present /\ ~term_fits(d, h, w)
       THEN [raised |-> "ValueError", out |-> << >>]
     ELSE [raised |-> "none",
           out |-> [p \in Pixels(h, w) |->
                      f64_sum[<<neighbour_term(lg, adj, "tl", p),
                                neighbour_term(lg, adj, "up", p),
                                neighbour_term(lg, adj, "tr", p),
                                neighbour_term(lg, adj, "le", p),
                                f64_mul[f64_int[lg.v[p]], weight_matrices(h, w)[2][2][p]],
                                neighbour_term(lg, adj, "ri", p),
                                neighbour_term(lg, adj, "bl", p),
                                neighbour_term(lg, adj, "do", p),
                                neighbour_term(lg, adj, "br", p)>>]]]

(***************************************************************************)
(* The call postprocess_classes(raw_floodmap_path, floodmap_path,          *)
(* floodmap_nodata) of a function declared with the two positional         *)
(* parameters in_fpath, out_fpath and a keyword dictionary: Python binds   *)
(* the positional arguments to the positional parameters and raises        *)
(* TypeError when more are given than declared; the keyword dictionary     *)
(* takes keyword arguments only.                                           *)
(***************************************************************************)
\* number of positional parameters of postprocess_classes
PostprocessParams == 2
\* number of positional arguments of the call at the end of the search
PostprocessArgs == 3

bind_positional(n_params, n_args) ==
  IF n_args > n_params THEN "TypeError" ELSE "ok"

(***************************************************************************)
(* postprocess_classes and _postprocess_classes.  A raster or class map    *)
(* is [h, w, v] with v a function on the pixels <<y, x>>; a mask is a      *)
(* function from the pixels to BOOLEAN.  The points of a contour are kept  *)
(* in half pixels, <<2 * row, 2 * column>>, as skimage.measure places them *)
(* half-way between two pixel centres.  The library calls are modelled by  *)
(* what they compute: skimage.filters.rank.majority counts, for every      *)
(* pixel, the pixels of the footprint that are inside the image and inside *)
(* the mask, and returns the smallest of the most frequent values (0 when  *)
(* it counted none); skimage.measure.find_contours is marching squares at  *)
(* the level 0.5 with the set pixels connected by their sides only, the    *)
(* contours in the order of their first segment; shapely's area is the     *)
(* absolute shoelace sum of the closed ring; skimage.draw.polygon2mask     *)
(* holds the pixel centres inside or on the ring; scipy.stats.mode returns *)
(* the smallest of the most frequent values.  Both sides of a class map    *)
(* are at least 2, find_contours refusing anything smaller.                *)
(***************************************************************************)
\* floodmap_nodata = 255
FloodmapNodata == 255
\* kernel = skimage.morphology.disk(radius=2)
DiskRadius == 2
\* def _postprocess_classes(class_map, mask=None, size_threshold=50)
SizeThreshold == 50
\* if np.linalg.norm(shp_np[0] - shp_np[-1]) > 2
MaxEndGap == 2
\* max(0, y - 2) ... min(h, y + 3)
WindowPad == 2

\* skimage.morphology.disk(radius): the offsets <<dy, dx>> of the footprint
disk(radius) ==
  {d \in ((0 - radius)..radius) \X ((0 - radius)..radius) :
     d[1] * d[1] + d[2] * d[2] <= radius * radius}

\* the smallest of the most frequent values of v on the pixels P
mode(v, P) ==
  LET votes(a) == Cardinality({p \in P : v[p] = a})
  IN CHOOSE a \in {v[p] : p \in P} :
       \A b \in {v[p] : p \in P} :
          votes(a) > votes(b) \/ (votes(a) = votes(b) /\ a <= b)

\* skimage.filters.rank.majority(image, footprint, mask=mask)
majority(image, footprint, mask) ==
  [image EXCEPT !.v =
     [p \in Pixels(image.h, image.w) |->
        LET N == {q \in {<<p[1] + d[1], p[2] + d[2]>> : d \in footprint} :
                    q \in Pixels(image.h, image.w) /\ mask[q]}
        IN IF N = {} THEN 0 ELSE mode(image.v, N)]]

\* the segments of marching squares in the square of pixel centres whose
\* upper left corner is <<r, c>>, in the order the library emits them
square_segments(b, r, c) ==
  LET ul == b[<<r, c>>]
      ur == b[<<r, c + 1>>]
      ll == b[<<r + 1, c>>]
      lr == b[<<r + 1, c + 1>>]
      top == <<2 * r, 2 * c + 1>>
      bottom == <<2 * r + 2, 2 * c + 1>>
      left == <<2 * r + 1, 2 * c>>
      right == <<2 * r + 1, 2 * c + 2>>
      n == Cardinality({k \in 1..4 : <<ul, ur, ll, lr>>[k]})
      odd == CHOOSE k \in 1..4 : <<ul, ur, ll, lr>>[k] = (n = 1)
  IN IF n = 0 \/ n = 4 THEN << >>
     ELSE IF n = 1 \/ n = 3
       THEN << <<<<top, left>>, <<top, right>>, <<left, bottom>>, <<right, bottom>>>>[odd] >>
     ELSE IF ul = ur THEN << <<left, right>> >>
     ELSE IF ul = ll THEN << <<top, bottom>> >>
     ELSE IF ul THEN << <<top, left>>, <<bottom, right>> >>
     ELSE << <<top, right>>, <<bottom, left>> >>

\* the segments of every square, row by row
RECURSIVE contour_segments(_, _, _, _)
contour_segments(b, h, w, k) ==
  IF k >= (h - 1) * (w - 1) THEN << >>
  ELSE square_segments(b, k \div (w - 1), k % (w - 1)) \o contour_segments(b, h, w, k + 1)

\* follow the segments of rest from the end of path until none continues it
RECURSIVE walk(_, _, _)
walk(segs, path, rest) ==
  LET cur == path[Len(path)]
      nxt == {i \in rest : cur = segs[i][1] \/ cur = segs[i][2]}
  IN IF nxt = {} THEN [path |-> path, rest |-> rest]
     ELSE LET i == CHOOSE i \in nxt : \A j \in nxt : i <= j
              q == IF segs[i][1] = cur THEN segs[i][2] ELSE segs[i][1]
          IN walk(segs, Append(path, q), rest \ {i})

\* the contour through segment i: a closed one ends where it starts, an
\* open one runs from one end on the border of the image to the other
contour_through(segs, rest, i) ==
  LET first == walk(segs, <<segs[i][1]>>, rest)
      stop == first.path[Len(first.path)]
  IN IF stop = segs[i][1] THEN first ELSE walk(segs, <<stop>>, rest)

RECURSIVE assemble_contours(_, _)
assemble_contours(segs, rest) ==
  IF rest = {} THEN << >>
  ELSE LET i == CHOOSE i \in rest : \A j \in rest : i <= j
           c == contour_through(segs, rest, i)
       IN <<c.path>> \o assemble_contours(segs, c.rest)

\* skimage.measure.find_contours(b) of a boolean image b shaped (h, w)
find_contours(b, h, w) ==
  LET segs == contour_segments(b, h, w, 0)
  IN assemble_contours(segs, 1..Len(segs))

\* np.linalg.norm(shp_np[0] - shp_np[-1]) > gap, the points in half pixels
ends_apart(shp_np, gap) ==
  LET a == shp_np[1]
      z == shp_np[Len(shp_np)]
  IN (a[1] - z[1]) * (a[1] - z[1]) + (a[2] - z[2]) * (a[2] - z[2]) > 4 * gap * gap

\* np.round of num / den (den > 0, num >= 0): to the nearest integer, a
\* half to the even one
np_round(num, den) ==
  LET q == num \div den
      r == num % den
  IN IF 2 * r < den THEN q
     ELSE IF 2 * r > den THEN q + 1
     ELSE IF q % 2 = 0 THEN q ELSE q + 1

RECURSIVE sum_coord(_, _, _)
sum_coord(shp_np, k, i) ==
  IF i > Len(shp_np) THEN 0 ELSE shp_np[i][k] + sum_coord(shp_np, k, i + 1)

\* the pixels of the slices (slice(ylo, yhi), slice(xlo, xhi))
box_pixels(ylo, yhi, xlo, xhi) == (ylo..(yhi - 1)) \X (xlo..(xhi - 1))

\* the branch len(shp_np) <= 2 (lines 860-865)
replace_single(smoothed, shp_np) ==
  LET y == np_round(sum_coord(shp_np, 1, 1), 2 * Len(shp_np))
      x == np_round(sum_coord(shp_np, 2, 1), 2 * Len(shp_np))
      ylo == Max(0, y - WindowPad)
      xlo == Max(0, x - WindowPad)
      yhi == Min(smoothed.h, y + WindowPad + 1)
      xhi == Min(smoothed.w, x + WindowPad + 1)
      maj == mode(smoothed.v, box_pixels(ylo, yhi, xlo, xhi))
  IN [smoothed EXCEPT !.v[<<y, x>>] = maj]

\* the ring of a polygon: every point with the next one, the last with the
\* first
ring_edges(shp_np) ==
  {<<shp_np[i], shp_np[(i % Len(shp_np)) + 1]>> : i \in 1..Len(shp_np)}

RECURSIVE shoelace(_, _)
shoelace(shp_np, i) ==
  IF i > Len(shp_np) THEN 0
  ELSE LET a == shp_np[i]
           z == shp_np[(i % Len(shp_np)) + 1]
       IN a[1] * z[2] - z[1] * a[2] + shoelace(shp_np, i + 1)

\* shapely.Polygon(shp_np).area < size_threshold; the shoelace sum of points
\* in half pixels is eight times the area
area_below(shp_np, size_threshold) == Abs(shoelace(shp_np, 1)) < 8 * size_threshold

\* the point p (half pixels) lies on the edge e
on_edge(e, p) ==
  LET a == e[1]
      z == e[2]
  IN /\ (z[1] - a[1]) * (p[2] - a[2]) = (z[2] - a[2]) * (p[1] - a[1])
     /\ Min(a[1], z[1]) <= p[1] /\ p[1] <= Max(a[1], z[1])
     /\ Min(a[2], z[2]) <= p[2] /\ p[2] <= Max(a[2], z[2])

\* the edge e crosses the row of p to the right of p
crosses_right(e, p) ==
  LET a == e[1]
      z == e[2]
  IN /\ (a[1] > p[1]) # (z[1] > p[1])
     /\ IF z[1] > a[1]
          THEN (p[2] - a[2]) * (z[1] - a[1]) < (p[1] - a[1]) * (z[2] - a[2])
          ELSE (p[2] - a[2]) * (z[1] - a[1]) > (p[1] - a[1]) * (z[2] - a[2])

\* skimage.draw.polygon2mask: the pixels of the box whose centre is inside
\* or on the polygon
polygon2mask(box, shp_np) ==
  {p \in box :
     LET c == <<2 * p[1], 2 * p[2]>>
     IN \/ \E e \in ring_edges(shp_np) : on_edge(e, c)
        \/ Cardinality({e \in ring_edges(shp_np) : crosses_right(e, c)}) % 2 = 1}

RECURSIVE coord_min(_, _, _)
coord_min(shp_np, k, i) ==
  IF i = Len(shp_np) THEN shp_np[i][k]
  ELSE Min(shp_np[i][k], coord_min(shp_np, k, i + 1))

RECURSIVE coord_max(_, _, _)
coord_max(shp_np, k, i) ==
  IF i = Len(shp_np) THEN shp_np[i][k]
  ELSE Max(shp_np[i][k], coord_max(shp_np, k, i + 1))

\* util.rounded_bounds(shp.bounds): the bounds rounded to whole pixels
rounded_bounds(shp_np) ==
  <<np_round(coord_min(shp_np, 1, 1), 2), np_round(coord_min(shp_np, 2, 1), 2),
    np_round(coord_max(shp_np, 1, 1), 2), np_round(coord_max(shp_np, 2, 1), 2)>>

\* the branch of a polygon below the size threshold (lines 867-877)
replace_polygon(smoothed, shp_np, size_threshold) ==
  IF ~area_below(shp_np, size_threshold) THEN smoothed
  ELSE LET rb == rounded_bounds(shp_np)
           ylo == Max(0, rb[1] - WindowPad)
           xlo == Max(0, rb[2] - WindowPad)
           yhi == Min(smoothed.h, rb[3] + WindowPad + 1)
           xhi == Min(smoothed.w, rb[4] + WindowPad + 1)
           box == box_pixels(ylo, yhi, xlo, xhi)
           shp_mask == polygon2mask(box, shp_np)
           maj == mode(smoothed.v, box)
       IN [smoothed EXCEPT !.v = [p \in DOMAIN smoothed.v |->
                                    IF p \in shp_mask THEN maj ELSE smoothed.v[p]]]

\* the body of the loop over the contours (lines 853-877)
replace_small(smoothed, shp_np, size_threshold) ==
  IF ends_apart(shp_np, MaxEndGap) THEN smoothed
  ELSE IF Len(shp_np) <= 2 THEN replace_single(smoothed, shp_np)
  ELSE replace_polygon(smoothed, shp_np, size_threshold)

RECURSIVE over_contours(_, _, _, _)
over_contours(smoothed, cs, i, size_threshold) ==
  IF i > Len(cs) THEN smoothed
  ELSE over_contours(replace_small(smoothed, cs[i], size_threshold), cs, i + 1,
                     size_threshold)

\* one round of the loop over cls_id: the contours of smoothed == cls_id
remove_class_holes(smoothed, cls_id, size_threshold) ==
  LET b == [p \in DOMAIN smoothed.v |-> smoothed.v[p] = cls_id]
  IN over_contours(smoothed, find_contours(b, smoothed.h, smoothed.w), 1,
                   size_threshold)

\* _postprocess_classes(class_map, mask, size_threshold), lines 844-879
_postprocess_classes(class_map, mask, size_threshold) ==
  LET smoothed == majority(class_map, disk(DiskRadius), mask)
  IN remove_class_holes(remove_class_holes(smoothed, 1, size_threshold), 2,
                        size_threshold)

\* the variant that does not write the nodata back
postprocess_classes_unrestored(raster) ==
  LET nan_mask == [p \in DOMAIN raster.v |-> raster.v[p] = FloodmapNodata]
  IN _postprocess_classes(raster, [p \in DOMAIN raster.v |-> ~nan_mask[p]], SizeThreshold)

\* postprocess_classes(in_fpath, out_fpath), lines 829-841: the raster
\* written to out_fpath for the raster read from in_fpath
postprocess_classes(raster) ==
  LET nan_mask == [p \in DOMAIN raster.v |-> raster.v[p] = FloodmapNodata]
      floodmaps == _postprocess_classes(raster, [p \in DOMAIN raster.v |-> ~nan_mask[p]],
                               SizeThreshold)
  IN [floodmaps EXCEPT !.v = [p \in DOMAIN raster.v |->
                                IF nan_mask[p] THEN FloodmapNodata ELSE floodmaps.v[p]]]

(***************************************************************************)
(* s1_preprocess_edge_heuristic.  An input tensor is summarised by         *)
(*   nan   : number of NaN pixels                                          *)
(*   zeros : number of pixels below 1e-5                                   *)
(*   size  : number of pixels                                              *)
(* threshold = 0.05 = 1/20, so zeros < size * threshold is                 *)
(* 20 * zeros < size.                                                      *)
(***************************************************************************)
\* variant: a heuristic that accepts every tile
edge_heuristic_always_true(tensors) == TRUE

s1_preprocess_edge_heuristic(tensors) ==
  LET no_nan == \A i \in 1..Len(tensors) : tensors[i].nan = 0
      not_too_many_zeros ==
        \A i \in 1..Len(tensors) : 20 * tensors[i].zeros < tensors[i].size
  IN no_nan /\ not_too_many_zeros

(***************************************************************************)
(* Tile statistics and disposition.  flood_cls is the classified tile as   *)
(* a record of pixel counts: bg background, pw permanent water, fl flood.  *)
(***************************************************************************)
\* data_sources.ks_water_stats: (n_bg, n_pw, n_fl)
ks_water_stats(flood_cls) == <<flood_cls.bg, flood_cls.pw, flood_cls.fl>>

\* number of pixels of the classified tile
cls_size(flood_cls) == flood_cls.bg + flood_cls.pw + flood_cls.fl

\* n_fl / (n_bg + n_pw + n_fl) > 0.05
tile_flooded(stats) ==
  20 * stats[3] > stats[1] + stats[2] + stats[3]

\* variant: no tile counts as a large water body
large_water_body_never(flood_cls) == FALSE

\* (flood_cls == PW).mean() > 0.5 or (flood_cls == BG).mean() < 0.1
large_water_body(flood_cls) ==
  \/ 2 * flood_cls.pw > cls_size(flood_cls)
  \/ 10 * flood_cls.bg < cls_size(flood_cls)

\* variant: the expansion without the (tile not in tiles) test
append_new_requeue(tiles_, new_tiles, visited_) ==
  LET keep == {i \in 1..Len(new_tiles) : new_tiles[i] \notin visited_}
  IN tiles_ \o KeepIdx(new_tiles, keep)

\* for tile in new_tiles: if not visited[tile] and (tile not in tiles): append
append_new(tiles_, new_tiles, visited_) ==
  LET keep == {i \in 1..Len(new_tiles) :
                 /\ new_tiles[i] \notin visited_
                 /\ new_tiles[i] \notin Elems(tiles_)
                 /\ \A j \in 1..(i - 1) : new_tiles[j] # new_tiles[i]}
  IN tiles_ \o KeepIdx(new_tiles, keep)

(***************************************************************************)
(* Offset-lattice logit caches.  A cache state is a record                 *)
(*   cache : offset key -> (cell -> "logits" | "None"), a dict per lattice *)
(*   calls : <<key, cell>> -> number of oracle invocations for that cell   *)
(* flood_model is the oracle's behaviour on offset tiles: the set of       *)
(* <<key, cell>> for which it returns no logits.                           *)
(***************************************************************************)
Inc(f, x) ==
  IF x \in DOMAIN f THEN [f EXCEPT ![x] = @ + 1] ELSE f @@ (x :> 1)

\* variant: _ensure_logits without the early return on a cached key
ensure_logits_uncached(st, k, offset_tile_grid, x, y, flood_model) ==
  LET w == offset_tile_grid[1]
      h == offset_tile_grid[2]
      old == st.cache[k]
      put(v) == [st.cache EXCEPT ![k] =
                   [c \in (DOMAIN old) \cup {<<x, y>>} |-> IF c = <<x, y>> THEN v ELSE old[c]]]
  IN IF x >= 0 /\ y >= 0 /\ x < w /\ y < h
       THEN [cache |-> put(IF <<k, <<x, y>>>> \in flood_model THEN "None" ELSE "logits"),
             calls |-> Inc(st.calls, <<k, <<x, y>>>>)]
       ELSE [cache |-> put("None"), calls |-> st.calls]

\* _ensure_logits: the cache state after the call
ensure_logits(st, k, offset_tile_grid, x, y, flood_model) ==
  LET w == offset_tile_grid[1]
      h == offset_tile_grid[2]
      put(v) == [st.cache EXCEPT ![k] = @ @@ (<<x, y>> :> v)]
  IN IF <<x, y>> \in DOMAIN st.cache[k] THEN st
     ELSE IF x >= 0 /\ y >= 0 /\ x < w /\ y < h
       THEN [cache |-> put(IF <<k, <<x, y>>>> \in flood_model THEN "None" ELSE "logits"),
             calls |-> Inc(st.calls, <<k, <<x, y>>>>)]
       ELSE [cache |-> put("None"), calls |-> st.calls]

\* the eight requests of get_adjacent_logits, in the order they are made
adjacent_requests(tile_x, tile_y) ==
  << <<"le", <<1, 0>>, <<tile_x - 1, tile_y>>>>,
     <<"ri", <<1, 0>>, <<tile_x, tile_y>>>>,
     <<"up", <<0, 1>>, <<tile_x, tile_y - 1>>>>,
     <<"do", <<0, 1>>, <<tile_x, tile_y>>>>,
     <<"tl", <<1, 1>>, <<tile_x - 1, tile_y - 1>>>>,
     <<"tr", <<1, 1>>, <<tile_x, tile_y - 1>>>>,
     <<"bl", <<1, 1>>, <<tile_x - 1, tile_y>>>>,
     <<"br", <<1, 1>>, <<tile_x, tile_y>>>> >>

RECURSIVE ensure_all(_, _, _, _, _)
ensure_all(st, reqs, i, grids, flood_model) ==
  IF i > Len(reqs) THEN st
  ELSE ensure_all(
         ensure_logits(st, reqs[i][2], grids[reqs[i][2]],
                       reqs[i][3][1], reqs[i][3][2], flood_model),
         reqs, i + 1, grids, flood_model)

\* the cache state after get_adjacent_logits and the dict it returns
get_adjacent_logits(grids, tile_x, tile_y, flood_model, st) ==
  LET reqs == adjacent_requests(tile_x, tile_y)
      st2 == ensure_all(st, reqs, 1, grids, flood_model)
      dirs == {reqs[i][1] : i \in 1..Len(reqs)}
      req(d) == CHOOSE i \in 1..Len(reqs) : reqs[i][1] = d
  IN [st |-> st2,
      adjacent |-> [d \in dirs |-> st2.cache[reqs[req(d)][2]][reqs[req(d)][3]]]]


(***************************************************************************)
(* State                                                                   *)
(***************************************************************************)
VARIABLES
  pc,               \* position in progressively_grow_floodmaps / the seeder
  inp_tifs,         \* the opened input rasters (argument inp_img_paths)
  geom_bounds,      \* bounds of viable_footprint in pixel space, half pixels
  footprint_gaps,   \* the primary tiles that viable_footprint does not contain
  gridsize,         \* argument tile_size
  grids,            \* the four lattices of mk_grid, << >> before they are built
  grid_size,        \* tile_grids[(0, 0)].shape
  rivers_df,        \* the river network (argument)
  prescribed_tiles, \* [given, geoms]: the prescribed footprints or None
  min_river_size,   \* arguments of create_initial_tiles
  seed_cap,
  max_tiles,        \* argument max_tiles of the search
  export_s1,        \* argument export_s1
  no_logits,        \* the offset tiles <<key, cell>> for which the oracle
                    \* (argument flood_model) returns no logits
  tiles,            \* the frontier (a list)
  visited,          \* the True cells of the visited mask
  offset_cache,     \* offset key -> dict of cached logits
  n_visited, n_flooded, n_permanent, n_outside,
  visit_tiles,      \* geometry (coordinate) of every popped tile
  fill_tiles,       \* geometry (coordinate) of every classified tile
  geom_stats,       \* statistics of every classified tile
  out_tif,          \* tiles whose window was written to the class raster
  s1_tifs,          \* tiles whose window was written to the export rasters
  oracle_calls,     \* <<offset key, cell>> -> number of flood_model calls for it
  last,             \* what the last iteration popped and was given
  created,          \* the output rasters opened for writing
  raised,           \* the exception that ended the function, "none" if none
  returned,         \* << >>, or the returned tuple as the only element
  maps_args,        \* create_flood_maps: which of the arguments search_idxs and
                    \* prescribed_tiles are given (not None), the length of
                    \* prescribed_tiles, and export_s1
  tuplets,          \* create_flood_maps: what find_intersecting_tuplets returns
  search_idxs,      \* create_flood_maps: the image groups (argument, or the
                    \* tuplets found), << >> while None
  processed,        \* create_flood_maps: indices of the groups searched so far
  metas,            \* create_flood_maps: the list metas
  logits,           \* blending: [h, w, v], the tile's own logits (argument)
  adjacent,         \* blending: direction -> [present, v] (argument)
  blended,          \* blending: [raised, out], the result
  raw_raster,       \* postprocessing: the raw class raster [h, w, v]
  final_raster,     \* postprocessing: the raster postprocess_classes writes
  once,             \* postprocessing: _postprocess_classes of the raw raster
  twice,            \* postprocessing: _postprocess_classes of once
  visit_layer,      \* postprocessing: the tile windows of the visit-tiles layer,
                    \* {} before it is read
  tensors,          \* edge heuristic: the input tensors (argument)
  not_at_edge,      \* edge heuristic: the value returned, "unset" before
  ssl_lock,         \* ERA5 script: the lock ssl_lock, "locked" or "unlocked"
  ram_lock,         \* ERA5 script: the lock ram_lock
  n_concurrent,     \* ERA5 script: argument --n_concurrent
  threads,          \* ERA5 script: worker thread -> [pc, task, phase, status, now, files]
  work_queue,       \* ERA5 script: the submitted months no worker has taken yet
  futures,          \* ERA5 script: month -> "pending", "running", "finished" or the exception raised
  drive,            \* ERA5 script: month -> number of its files on Google Drive
  local_files,      \* ERA5 script: the months whose local file exists
  exported          \* ERA5 script: month -> how _export_to_gdrive ended for it

\* the arguments of progressively_grow_floodmaps and create_initial_tiles
inputs == <<inp_tifs, geom_bounds, footprint_gaps, gridsize, rivers_df,
            prescribed_tiles, min_river_size, seed_cap, max_tiles, export_s1,
            no_logits>>

\* the lattices once built
lattice == <<grids, grid_size>>

\* how the function ended
outcome == <<created, raised, returned>>

\* the state of create_flood_maps
maps_vars == <<maps_args, tuplets, search_idxs, processed, metas>>

\* the state of average_logits_towards_edges
blend_vars == <<logits, adjacent, blended>>

\* the state of postprocess_classes and _postprocess_classes
post_vars == <<raw_raster, final_raster, once, twice, visit_layer>>

\* the state of s1_preprocess_edge_heuristic
heur_vars == <<tensors, not_at_edge>>

\* the state of the ERA5 download script
era_vars == <<ssl_lock, ram_lock, n_concurrent, threads, work_queue, futures,
              drive, local_files, exported>>

\* the state of the functions modelled on their own
aux == <<maps_vars, blend_vars, post_vars, heur_vars, era_vars>>

vars == <<pc, inputs, lattice, tiles, visited, offset_cache, n_visited,
          n_flooded, n_permanent, n_outside, visit_tiles, fill_tiles,
          geom_stats, out_tif, s1_tifs, oracle_calls, last, outcome, aux>>

\* the state of the search apart from pc and the outcome
search_state == <<inputs, lattice, tiles, visited, offset_cache, n_visited,
                  n_flooded, n_permanent, n_outside, visit_tiles, fill_tiles,
                  geom_stats, out_tif, s1_tifs, oracle_calls, last>>

\* create_flood_maps is not running
\* find_intersecting_tuplets returned None, or was not called
NoTuplets == [found |-> FALSE, groups |-> << >>]

MapsIdle ==
  /\ maps_args = [search_idxs |-> FALSE, prescribed_tiles |-> FALSE,
                  n_prescribed |-> 0, export_s1 |-> FALSE]
  /\ tuplets = NoTuplets
  /\ search_idxs = << >> /\ processed = << >> /\ metas = << >>

\* the blending is not running
NoArray == [h |-> 0, w |-> 0, v |-> << >>]
NotBlended == [raised |-> "none", out |-> << >>]
BlendIdle == logits = NoArray /\ adjacent = << >> /\ blended = NotBlended

\* the postprocessing is not running
PostIdle ==
  /\ raw_raster = NoArray /\ final_raster = NoArray /\ once = NoArray /\ twice = NoArray
  /\ visit_layer = {}

\* the edge heuristic is not running
HeurIdle == tensors = << >> /\ not_at_edge = "unset"

\* the ERA5 download script is not running
EraIdle ==
  /\ ssl_lock = "unlocked" /\ ram_lock = "unlocked"
  /\ n_concurrent = 0
  /\ threads = << >> /\ work_queue = << >> /\ futures = << >>
  /\ drive = << >> /\ local_files = {} /\ exported = << >>

AuxIdle == MapsIdle /\ BlendIdle /\ PostIdle /\ HeurIdle /\ EraIdle

tile_grids == mk_grid_shapes(grid_size[1], grid_size[2])

NoLast == [tile |-> <<-1, -1>>, contained |-> FALSE, s1_inps |-> << >>,
           flood_logits |-> "uncalled", flood_cls |-> [bg |-> 0, pw |-> 0, fl |-> 0]]

(***************************************************************************)
(* Inputs                                                                  *)
(***************************************************************************)
SearchGrids == {g \in (1..MaxW) \X (1..MaxH) : g[1] * g[2] <= MaxCells}

\* river networks given to the search: none, a large river through the first
\* tile, a small river through the last tile, a large river missing the
\* validity polygon
SearchRivers(g) ==
  { {},
    {[riv_tc_usu |-> SearchMinRiverSize + 100, in_geom |-> TRUE, cells |-> {<<0, 0>>}]},
    {[riv_tc_usu |-> SearchMinRiverSize - 400, in_geom |-> TRUE,
      cells |-> {<<g[1] - 1, g[2] - 1>>}]},
    {[riv_tc_usu |-> SearchMinRiverSize + 100, in_geom |-> FALSE, cells |-> {<<0, 0>>}]} }

\* prescribed footprints: previous tiles (each fully covering its cell) and
\* possibly a sliver covering 1% of a cell
SearchPrescribed(g) ==
  LET full == {[cell |-> c, pct |-> 100] : c \in Cells(g)}
      sliver == {[cell |-> c, pct |-> 1] : c \in {<<0, 0>>}}
  IN {G \in SUBSET (full \cup sliver) : Cardinality(G) <= MaxPrescribed}

\* the oracle has logits for every offset tile, or for none of the first
\* tiles of the offset lattices
OracleGaps == {{}, {<<k, <<0, 0>>>> : k \in OffsetKeys}}

\* input tensors of one tile as the oracle returns them
GoodTensor == [nan |-> 0, zeros |-> 0, size |-> TilePixels]
NanTensor == [nan |-> 1, zeros |-> 0, size |-> TilePixels]
ZeroTensor == [nan |-> 0, zeros |-> (TilePixels \div 20) + 1, size |-> TilePixels]
\* what the oracle returns for a primary tile: (s1_inps, flood_logits)
OracleChoices == {<<<<GoodTensor, GoodTensor>>, "logits">>,
                  <<<<GoodTensor, GoodTensor>>, "None">>,
                  <<<<GoodTensor, NanTensor>>, "logits">>,
                  <<<<ZeroTensor, GoodTensor>>, "logits">>}

\* classified tiles: dry, flooded, flooded with exactly half permanent water,
\* mostly permanent water with flood, hardly any background and nearly all
\* flood
ClsChoices ==
  LET n == TilePixels
      half == n \div 2
  IN { [bg |-> n, pw |-> 0, fl |-> 0],
       [bg |-> n - 2, pw |-> 0, fl |-> 2],
       [bg |-> n - half - 2, pw |-> half, fl |-> 2],
       [bg |-> 2, pw |-> half + 1, fl |-> n - half - 3],
       [bg |-> 1, pw |-> 0, fl |-> n - 1] }

\* tile_size: int = 224
DefaultTileSize == 224

\* a footprint whose lattice has the shape g: bounds one pixel (and a half
\* on the high side) outside g tiles of s pixels starting at pixel 0
FootprintOf(g, s) == <<-2, -2, 2 * (g[1] * s + 1) + 1, 2 * (g[2] * s + 1) + 1>>

SearchFootprints == {FootprintOf(g, DefaultTileSize) : g \in SearchGrids}

\* input rasters: resolution 0.01 / -0.01 in EPSG:4326; a resolution that
\* differs by 5e-8 (within the tolerance of allclose, 1e-8 + 1e-7) and one
\* that differs by 1e-6; another reference system
PlainTif == [res |-> <<1000000, -1000000>>, crs |-> "EPSG:4326"]
CloseTif == [res |-> <<1000005, -1000000>>, crs |-> "EPSG:4326"]
OtherResTif == [res |-> <<1000000, -1000100>>, crs |-> "EPSG:4326"]
OtherCrsTif == [res |-> <<1000000, -1000000>>, crs |-> "EPSG:3857"]
\* 0.02 and 0.02000021: in decimals the difference is the tolerance
\* 1e-8 + 1e-5 * 0.02 exactly, in float64 it is above it
WideTif == [res |-> <<2000000, -1000000>>, crs |-> "EPSG:4326"]
WideTieTif == [res |-> <<2000021, -1000000>>, crs |-> "EPSG:4326"]

\* viable_footprint is a polygon inside its bounds: it contains every tile
\* of the primary lattice (a box), or all but the last one (a cut corner)
FootprintGaps(g) == {{}, {<<g[1] - 1, g[2] - 1>>}}

\* the shape of the primary lattice of a footprint
shape_of(bounds, s) == mk_grid(bounds, s).grids[<<0, 0>>].shape

(***************************************************************************)
(* progressively_grow_floodmaps                                            *)
(***************************************************************************)
\* the state at the call, the rasters drawn from Tifs and the footprint
\* from Bounds
InitSearch(Tifs, Bounds) ==
  /\ pc = "start"
  /\ AuxIdle
  /\ inp_tifs \in Tifs
  /\ geom_bounds \in Bounds
  /\ footprint_gaps \in FootprintGaps(shape_of(geom_bounds, DefaultTileSize))
  /\ gridsize = DefaultTileSize
  /\ grids = << >>
  /\ grid_size = <<0, 0>>
  /\ created = {} /\ raised = "none" /\ returned = << >>
  /\ \/ /\ rivers_df \in SearchRivers(shape_of(geom_bounds, gridsize))
        /\ prescribed_tiles = [given |-> FALSE, geoms |-> {}]
     \/ /\ rivers_df = {}
        /\ prescribed_tiles \in
             {[given |-> TRUE, geoms |-> G] :
                G \in SearchPrescribed(shape_of(geom_bounds, gridsize))}
  /\ min_river_size = SearchMinRiverSize
  /\ seed_cap = SearchSeedMaxTiles
  /\ max_tiles \in {1, MaxTilesArg}
  /\ export_s1 \in BOOLEAN
  /\ no_logits \in OracleGaps
  /\ tiles = << >>
  /\ visited = {}
  /\ offset_cache = [k \in OffsetKeys |-> << >>]
  /\ n_visited = 0 /\ n_flooded = 0 /\ n_permanent = 0 /\ n_outside = 0
  /\ visit_tiles = << >> /\ fill_tiles = << >> /\ geom_stats = << >>
  /\ out_tif = {} /\ s1_tifs = {}
  /\ oracle_calls = << >>
  /\ last = NoLast

\* three rasters of the same resolution and reference system
Init == InitSearch({<<PlainTif, PlainTif, PlainTif>>}, SearchFootprints)

\* lines 276-344: the rasters are checked, then the lattices, the initial
\* frontier, the visited mask, the caches and the output rasters are made
Setup ==
  /\ pc = "start"
  /\ IF check_tifs_match(inp_tifs) # "ok"
       THEN /\ pc' = "raised"
            /\ raised' = check_tifs_match(inp_tifs)
            /\ UNCHANGED <<lattice, tiles, visited, offset_cache, n_visited,
                           n_flooded, n_permanent, n_outside, visit_tiles,
                           fill_tiles, geom_stats, out_tif, s1_tifs, created,
                           returned>>
       ELSE /\ grids' = mk_grid(geom_bounds, gridsize).grids
            /\ grid_size' = grids'[<<0, 0>>].shape
            /\ tiles' = IF ~prescribed_tiles.given
                          THEN create_initial_tiles(rivers_df, grid_size',
                                                    min_river_size, seed_cap)
                          ELSE get_grid_idx(grid_size', prescribed_tiles.geoms)
            /\ visited' = {}
            /\ offset_cache' = [k \in OffsetKeys |-> << >>]
            /\ n_visited' = 0 /\ n_flooded' = 0
            /\ n_permanent' = 0 /\ n_outside' = 0
            /\ visit_tiles' = << >> /\ fill_tiles' = << >>
            /\ geom_stats' = << >>
            /\ out_tif' = {} /\ s1_tifs' = {}
            /\ created' = {"raw"} \cup (IF export_s1 THEN {"s1-export"} ELSE {})
            /\ pc' = "loop"
            /\ UNCHANGED <<raised, returned>>
  /\ UNCHANGED <<aux, inputs, oracle_calls, last>>

\* variant: the last element is taken whatever the index
pop_last(l, i) == [item |-> l[Len(l)], rest |-> SubSeq(l, 1, Len(l) - 1)]

\* list.pop(i): the element at index i (counted from 0) and the list left
pop(l, i) ==
  [item |-> l[i + 1],
   rest |-> IF i = 0 THEN Tail(l) ELSE SubSeq(l, 1, i) \o SubSeq(l, i + 2, Len(l))]

\* variant: the cap compared with <=
loop_cond_off_by_one == Len(tiles) > 0 /\ Len(visit_tiles) <= max_tiles

\* while len(tiles) > 0 and len(visit_tiles) < max_tiles
loop_cond == Len(tiles) > 0 /\ Len(visit_tiles) < max_tiles

\* <<xlo, ylo, xhi, yhi>> of a box within those of another
within(a, b) == b[1] <= a[1] /\ b[2] <= a[2] /\ a[3] <= b[3] /\ a[4] <= b[4]

\* variant: the tile tested against the pixel-aligned footprint of mk_grid
contains_pixel_aligned(gaps, tile) ==
  within(tile_box(grids[<<0, 0>>], tile),
         mk_grid(geom_bounds, gridsize).pixel_aligned_geom)

\* shapely.contains(viable_footprint, tile_geom) for the tile at a coordinate
contains(gaps, tile) == tile \notin gaps

\* variant: the flood test made whatever the large-water test said
count_classified_independent(flood_cls, stats) ==
  [n_permanent |-> IF large_water_body(flood_cls) THEN 1 ELSE 0,
   n_flooded |-> IF tile_flooded(stats) THEN 1 ELSE 0]

\* lines 381-386: what a classified tile adds to n_permanent and n_flooded,
\* the flood test being the elif of the large-water test
count_classified(flood_cls, stats) ==
  [n_permanent |-> IF large_water_body(flood_cls) THEN 1 ELSE 0,
   n_flooded |-> IF ~large_water_body(flood_cls) /\ tile_flooded(stats)
                   THEN 1 ELSE 0]

\* lines 347-351, common to every iteration
Pop(tile) ==
  /\ tile = pop(tiles, 0).item
  /\ visited' = visited \cup {tile}
  /\ n_visited' = n_visited + 1
  /\ visit_tiles' = Append(visit_tiles, tile)

\* the in-bounds offset cells among the eight requests of a tile
RequestTargets(tile) ==
  LET reqs == adjacent_requests(tile[1], tile[2])
  IN {<<reqs[i][2], reqs[i][3]>> : i \in 1..Len(reqs)}

\* an iteration whose tile is not contained in viable_footprint (352-354)
VisitOutside ==
  /\ pc = "loop" /\ loop_cond
  /\ \E tile \in {pop(tiles, 0).item} :
       /\ Pop(tile)
       /\ ~contains(footprint_gaps, tile)
       /\ tiles' = pop(tiles, 0).rest
       /\ n_outside' = n_outside + 1
       /\ last' = [NoLast EXCEPT !.tile = tile]
  /\ UNCHANGED <<pc, aux, inputs, lattice, outcome, offset_cache, n_flooded,
                 n_permanent, fill_tiles, geom_stats, out_tif, s1_tifs,
                 oracle_calls>>

\* an iteration whose tile the oracle or the edge heuristic rejects (355-359)
VisitUnusable ==
  /\ pc = "loop" /\ loop_cond
  /\ \E tile \in {pop(tiles, 0).item}, r \in OracleChoices :
     \E s1_inps \in {r[1]}, flood_logits \in {r[2]} :
       /\ Pop(tile)
       /\ contains(footprint_gaps, tile)
       /\ ~s1_preprocess_edge_heuristic(s1_inps) \/ flood_logits = "None"
       /\ tiles' = pop(tiles, 0).rest
       /\ n_outside' = n_outside + 1
       /\ last' = [NoLast EXCEPT !.tile = tile, !.contained = TRUE,
                                 !.s1_inps = s1_inps, !.flood_logits = flood_logits]
  /\ UNCHANGED <<pc, aux, inputs, lattice, outcome, offset_cache, n_flooded,
                 n_permanent, fill_tiles, geom_stats, out_tif, s1_tifs,
                 oracle_calls>>

\* an iteration that classifies its tile (355-389)
VisitClassified ==
  /\ pc = "loop" /\ loop_cond
  /\ \E tile \in {pop(tiles, 0).item}, r \in OracleChoices, flood_cls \in ClsChoices :
     \E s1_inps \in {r[1]} :
       LET adj == get_adjacent_logits(tile_grids, tile[1], tile[2], no_logits,
                                      [cache |-> offset_cache,
                                       calls |-> oracle_calls])
           stats == ks_water_stats(flood_cls)
           new_tiles == sel_new_tiles_big_window(tile[1], tile[2],
                                                 grid_size[1], grid_size[2], FloodAdd)
       IN /\ Pop(tile)
          /\ contains(footprint_gaps, tile)
          /\ s1_preprocess_edge_heuristic(s1_inps) /\ r[2] = "logits"
          /\ offset_cache' = adj.st.cache
          /\ oracle_calls' = adj.st.calls
          /\ out_tif' = out_tif \cup {tile}
          /\ s1_tifs' = IF export_s1 THEN s1_tifs \cup {tile} ELSE s1_tifs
          /\ fill_tiles' = Append(fill_tiles, tile)
          /\ geom_stats' = Append(geom_stats, stats)
          /\ n_permanent' = n_permanent + count_classified(flood_cls, stats).n_permanent
          /\ n_flooded' = n_flooded + count_classified(flood_cls, stats).n_flooded
          /\ tiles' = IF count_classified(flood_cls, stats).n_flooded = 1
                         THEN append_new(pop(tiles, 0).rest, new_tiles, visited')
                         ELSE pop(tiles, 0).rest
          /\ last' = [tile |-> tile, contained |-> TRUE, s1_inps |-> s1_inps,
                      flood_logits |-> "logits", flood_cls |-> flood_cls]
  /\ UNCHANGED <<pc, aux, inputs, lattice, outcome, n_outside>>

\* the loop condition fails: the search is over
ExitLoop ==
  /\ pc = "loop" /\ ~loop_cond
  /\ pc' = "done"
  /\ UNCHANGED <<aux, inputs, lattice, outcome, tiles, visited, offset_cache,
                 n_visited, n_flooded, n_permanent, n_outside, visit_tiles,
                 fill_tiles, geom_stats, out_tif, s1_tifs, oracle_calls, last>>

\* return fill_tiles, geom_stats, n_flooded, s1_fpaths
return_value ==
  [tiles |-> fill_tiles, stats |-> geom_stats, n_flooded |-> n_flooded,
   s1_fpaths |-> IF export_s1 THEN "s1-export" ELSE "None"]

\* lines 407-415: the rasters are closed, postprocess_classes is called with
\* three positional arguments and the results are returned
Finish ==
  /\ pc = "done"
  /\ IF bind_positional(PostprocessParams, PostprocessArgs) = "ok"
       THEN /\ pc' = "returned"
            /\ created' = created \cup {"floodmap"}
            /\ returned' = <<return_value>>
            /\ raised' = raised
       ELSE /\ pc' = "raised"
            /\ raised' = bind_positional(PostprocessParams, PostprocessArgs)
            /\ UNCHANGED <<created, returned>>
  /\ UNCHANGED <<aux, inputs, lattice, tiles, visited, offset_cache, n_visited,
                 n_flooded, n_permanent, n_outside, visit_tiles, fill_tiles,
                 geom_stats, out_tif, s1_tifs, oracle_calls, last>>

Next ==
  Setup \/ VisitOutside \/ VisitUnusable \/ VisitClassified \/ ExitLoop \/ Finish

Spec == Init /\ [][Next]_vars

\* the loop is sequential code: an enabled step is eventually taken
FairSpec == Spec /\ WF_vars(Next)

(***************************************************************************)
(* The search given rasters that may differ in resolution or reference     *)
(* system, on a lattice of two tiles.                                      *)
(***************************************************************************)
TifKinds == {PlainTif, CloseTif, OtherResTif, OtherCrsTif}
WideTifKinds == {WideTif, WideTieTif}

\* the three rasters of an image group
TifLists ==
  {<<a, b, c>> : a \in TifKinds, b \in TifKinds, c \in TifKinds}
  \cup {<<WideTif, b, c>> : b \in WideTifKinds, c \in WideTifKinds}

InitTifs ==
  /\ InitSearch(TifLists, {FootprintOf(<<2, 1>>, DefaultTileSize)})
  /\ max_tiles = MaxTilesArg
  /\ no_logits = {}

SpecTifs == InitTifs /\ [][Next]_vars


(***************************************************************************)
(* create_initial_tiles on its own: the inputs are drawn in InitSeed and   *)
(* the function is applied by CreateInitialTiles.                          *)
(***************************************************************************)
\* the lattice of the worked example of the seeding fallback
ExampleGrid == <<10, 10>>

SeedGrids == ((1..MaxSeedW) \X (1..MaxSeedH)) \cup {ExampleGrid}

\* rivers running along a row of the lattice from any tile
RiverUniverse(g) ==
  {r \in [riv_tc_usu : {0, 1, MaxSeedArg + 1}, in_geom : BOOLEAN,
          cells : {{<<c[1] + i, c[2]>> : i \in 0..(len - 1)} :
                     c \in Cells(g), len \in 1..MaxRiverLen}] :
     r.in_geom \/ Cardinality(r.cells) = 1}

RECURSIVE RiverSets(_, _)
RiverSets(g, n) ==
  IF n = 0 THEN {{}}
  ELSE LET P == RiverSets(g, n - 1)
       IN P \cup {p \cup {r} : p \in P, r \in RiverUniverse(g)}

SeedRivers(g) == IF g = ExampleGrid THEN {{}} ELSE RiverSets(g, MaxRivers)

InitSeed ==
  /\ pc = "seed"
  /\ AuxIdle
  /\ grid_size \in SeedGrids
  /\ inp_tifs = << >> /\ geom_bounds = <<0, 0, 0, 0>> /\ gridsize = DefaultTileSize
  /\ footprint_gaps = {}
  /\ grids = << >>
  /\ created = {} /\ raised = "none" /\ returned = << >>
  /\ rivers_df \in SeedRivers(grid_size)
  /\ prescribed_tiles = [given |-> FALSE, geoms |-> {}]
  /\ min_river_size \in 0..MaxSeedArg
  /\ seed_cap \in 1..MaxSeedArg
  /\ max_tiles = 0
  /\ export_s1 = FALSE
  /\ no_logits = {}
  /\ tiles = << >>
  /\ visited = {}
  /\ offset_cache = [k \in OffsetKeys |-> << >>]
  /\ n_visited = 0 /\ n_flooded = 0 /\ n_permanent = 0 /\ n_outside = 0
  /\ visit_tiles = << >> /\ fill_tiles = << >> /\ geom_stats = << >>
  /\ out_tif = {} /\ s1_tifs = {}
  /\ oracle_calls = << >>
  /\ last = NoLast

CreateInitialTiles ==
  /\ pc = "seed"
  /\ tiles' = create_initial_tiles(rivers_df, grid_size, min_river_size, seed_cap)
  /\ pc' = "seeded"
  /\ UNCHANGED <<aux, inputs, lattice, outcome, visited, offset_cache, n_visited,
                 n_flooded, n_permanent, n_outside, visit_tiles, fill_tiles,
                 geom_stats, out_tif, s1_tifs, oracle_calls, last>>

NextSeed == CreateInitialTiles

SpecSeed == InitSeed /\ [][NextSeed]_vars


(***************************************************************************)
(* mk_grid on its own: the footprint bounds and the tile size are drawn in *)
(* InitGrid and the function is applied by MkGrid.                         *)
(***************************************************************************)
\* bounds in half pixels: the low corner at -1.5 or -0.5, the high corner
\* anywhere up to MaxGridPx
GridBounds ==
  {<<xl, yl, xh, yh>> : xl \in {-3, -1}, yl \in {-3}, xh \in 0..(2 * MaxGridPx),
                        yh \in 0..(2 * MaxGridPx)}

InitGrid ==
  /\ pc = "grid"
  /\ AuxIdle
  /\ geom_bounds \in GridBounds
  /\ footprint_gaps = {}
  /\ gridsize \in 1..MaxGridTile
  /\ inp_tifs = << >>
  /\ grids = << >>
  /\ grid_size = <<0, 0>>
  /\ created = {} /\ raised = "none" /\ returned = << >>
  /\ rivers_df = {}
  /\ prescribed_tiles = [given |-> FALSE, geoms |-> {}]
  /\ min_river_size = SearchMinRiverSize
  /\ seed_cap = SearchSeedMaxTiles
  /\ max_tiles = 0
  /\ export_s1 = FALSE
  /\ no_logits = {}
  /\ tiles = << >>
  /\ visited = {}
  /\ offset_cache = [k \in OffsetKeys |-> << >>]
  /\ n_visited = 0 /\ n_flooded = 0 /\ n_permanent = 0 /\ n_outside = 0
  /\ visit_tiles = << >> /\ fill_tiles = << >> /\ geom_stats = << >>
  /\ out_tif = {} /\ s1_tifs = {}
  /\ oracle_calls = << >>
  /\ last = NoLast

\* tile_grids, footprint_box = mk_grid(viable_footprint, transform, tile_size)
MkGrid ==
  /\ pc = "grid"
  /\ grids' = mk_grid(geom_bounds, gridsize).grids
  /\ grid_size' = grids'[<<0, 0>>].shape
  /\ pc' = "gridded"
  /\ UNCHANGED <<aux, inputs, outcome, tiles, visited, offset_cache, n_visited,
                 n_flooded, n_permanent, n_outside, visit_tiles, fill_tiles,
                 geom_stats, out_tif, s1_tifs, oracle_calls, last>>

NextGrid == MkGrid

SpecGrid == InitGrid /\ [][NextGrid]_vars

(***************************************************************************)
(* create_flood_maps.  An image group of search_idxs is represented by the *)
(* number of flooded tiles its search counts: [n_flooded |-> n].           *)
(***************************************************************************)
\* if n_flooded < 50 ... / if n_flooded >= 50: break
MajorFlooding == 50

\* the search is not running
SearchIdle ==
  /\ inp_tifs = << >> /\ geom_bounds = <<0, 0, 0, 0>> /\ gridsize = DefaultTileSize
  /\ footprint_gaps = {}
  /\ grids = << >> /\ grid_size = <<0, 0>>
  /\ rivers_df = {}
  /\ prescribed_tiles = [given |-> FALSE, geoms |-> {}]
  /\ min_river_size = SearchMinRiverSize
  /\ seed_cap = SearchSeedMaxTiles
  /\ max_tiles = 0
  /\ export_s1 = FALSE
  /\ no_logits = {}
  /\ tiles = << >>
  /\ visited = {}
  /\ offset_cache = [k \in OffsetKeys |-> << >>]
  /\ n_visited = 0 /\ n_flooded = 0 /\ n_permanent = 0 /\ n_outside = 0
  /\ visit_tiles = << >> /\ fill_tiles = << >> /\ geom_stats = << >>
  /\ out_tif = {} /\ s1_tifs = {}
  /\ oracle_calls = << >>
  /\ last = NoLast

\* flooded-tile counts of a search: none, just below, at and above the
\* threshold
FloodCounts == {0, MajorFlooding - 1, MajorFlooding, MajorFlooding + 1}

RECURSIVE GroupListsOfLen(_)
GroupListsOfLen(n) ==
  IF n = 0 THEN {<< >>}
  ELSE {Append(l, [n_flooded |-> c]) : l \in GroupListsOfLen(n - 1), c \in FloodCounts}

GroupLists == UNION {GroupListsOfLen(n) : n \in 0..MaxGroups}

\* the call of progressively_grow_floodmaps as create_flood_maps sees it,
\* for a group whose rasters match: the exception it ends with or the
\* n_flooded it returns, and the rasters it has opened for writing (the raw
\* raster and the Sentinel-1 exports before the search loop, the final
\* raster by postprocess_classes)
grow_call(group, s1) ==
  LET b == bind_positional(PostprocessParams, PostprocessArgs)
      opened == {"raw"} \cup (IF s1 THEN {"s1-export"} ELSE {})
  IN IF b = "ok"
       THEN [raised |-> "none", n_flooded |-> group.n_flooded,
             created |-> opened \cup {"floodmap"}]
     ELSE [raised |-> b, n_flooded |-> 0, created |-> opened]

\* the arguments of create_flood_maps: prescribed_tiles, when given, has
\* n_prescribed entries
MapsArgs ==
  {a \in [search_idxs : BOOLEAN, prescribed_tiles : BOOLEAN,
          n_prescribed : 0..MaxGroups, export_s1 : BOOLEAN] :
     ~a.prescribed_tiles => a.n_prescribed = 0}

InitMaps ==
  /\ pc = "maps_entry"
  /\ SearchIdle
  /\ EraIdle
  /\ HeurIdle
  /\ BlendIdle
  /\ PostIdle
  /\ created = {} /\ raised = "none" /\ returned = << >>
  /\ maps_args \in MapsArgs
  /\ search_idxs \in (IF maps_args.search_idxs THEN GroupLists ELSE {<< >>})
  /\ tuplets \in (IF maps_args.search_idxs THEN {NoTuplets}
                  ELSE {NoTuplets} \cup {[found |-> TRUE, groups |-> g] : g \in GroupLists})
  /\ processed = << >>
  /\ metas = << >>

\* lines 157-163: prescribed tiles without search_idxs fail the assertion;
\* without search_idxs the groups are those of find_intersecting_tuplets,
\* and the function returns None when there are none
ResolveGroups ==
  /\ pc = "maps_entry"
  /\ IF ~maps_args.search_idxs /\ maps_args.prescribed_tiles
       THEN /\ pc' = "raised"
            /\ raised' = "AssertionError"
            /\ UNCHANGED <<search_idxs, returned>>
       ELSE IF ~maps_args.search_idxs /\ ~tuplets.found
         THEN /\ pc' = "returned"
              /\ returned' = <<"None">>
              /\ UNCHANGED <<search_idxs, raised>>
         ELSE /\ pc' = "maps"
              /\ search_idxs' = IF maps_args.search_idxs THEN search_idxs
                                                         ELSE tuplets.groups
              /\ UNCHANGED <<raised, returned>>
  /\ UNCHANGED <<search_state, era_vars, heur_vars, created, maps_args, tuplets,
                 processed, metas, blend_vars, post_vars>>

\* one iteration of the loop over search_idxs (lines 166-246); the break is
\* followed by the return.  prescribed_tiles[map_idx] (line 192) raises
\* IndexError before the search when prescribed_tiles is too short.
ProcessGroup ==
  /\ pc = "maps" /\ Len(processed) < Len(search_idxs)
  /\ LET map_idx == Len(processed) + 1
         r == grow_call(search_idxs[map_idx], maps_args.export_s1)
     IN /\ processed' = Append(processed, map_idx)
        /\ IF maps_args.prescribed_tiles /\ map_idx > maps_args.n_prescribed
             THEN /\ pc' = "raised"
                  /\ raised' = "IndexError"
                  /\ UNCHANGED <<created, metas, returned>>
             ELSE IF r.raised # "none"
               THEN /\ pc' = "raised"
                    /\ raised' = r.raised
                    /\ created' = created \cup r.created
                    /\ UNCHANGED <<metas, returned>>
             ELSE /\ metas' = Append(metas, [n_flooded |-> r.n_flooded,
                                              flooding |-> ~(r.n_flooded < MajorFlooding)])
                  /\ raised' = raised
                  /\ created' = created \cup r.created
                  /\ IF r.n_flooded >= MajorFlooding
                       THEN pc' = "returned" /\ returned' = <<metas'>>
                       ELSE UNCHANGED <<pc, returned>>
  /\ UNCHANGED <<search_state, era_vars, heur_vars, maps_args, tuplets,
                 search_idxs, blend_vars, post_vars>>

\* the groups have run out: return metas (lines 248-250)
ReturnMetas ==
  /\ pc = "maps" /\ Len(processed) = Len(search_idxs)
  /\ pc' = "returned"
  /\ returned' = <<metas>>
  /\ UNCHANGED <<search_state, era_vars, heur_vars, created, raised, maps_vars, blend_vars, post_vars>>

NextMaps == ResolveGroups \/ ProcessGroup \/ ReturnMetas

SpecMaps == InitMaps /\ [][NextMaps]_vars

(***************************************************************************)
(* average_logits_towards_edges on its own: the logits and the neighbours  *)
(* are drawn in InitBlend and the function is applied by Blend.            *)
(***************************************************************************)
\* logits that are 1 everywhere, and logits that number the pixels
OnesTile(h, w) == [p \in Pixels(h, w) |-> 1]
RampTile(h, w) == [p \in Pixels(h, w) |-> p[1] * w + p[2] + 1]
TileKinds(h, w) == {OnesTile(h, w), RampTile(h, w)}

\* the neighbours in P present with the logits t, the others absent (None)
Neighbours(P, t) ==
  [d \in Dirs |-> IF d \in P THEN [present |-> TRUE, v |-> t]
                              ELSE [present |-> FALSE, v |-> << >>]]

\* the neighbours that are present: none, one, all but one, or all
NeighbourSets == {P \in SUBSET Dirs : Cardinality(P) \in {0, 1, 7, 8}}

InitBlend ==
  /\ pc = "blend"
  /\ SearchIdle
  /\ EraIdle
  /\ HeurIdle
  /\ MapsIdle
  /\ PostIdle
  /\ created = {} /\ raised = "none" /\ returned = << >>
  /\ \E h \in 1..MaxTile, w \in 1..MaxTile :
       /\ logits \in {[h |-> h, w |-> w, v |-> t] : t \in TileKinds(h, w)}
       /\ adjacent \in {Neighbours(P, t) : P \in NeighbourSets, t \in TileKinds(h, w)}
  /\ blended = NotBlended

\* flood_logits = average_logits_towards_edges(flood_logits, adjacent_logits)
Blend ==
  /\ pc = "blend"
  /\ blended' = average_logits_towards_edges(logits, adjacent)
  /\ pc' = "blended"
  /\ UNCHANGED <<search_state, era_vars, heur_vars, outcome, maps_vars, logits, adjacent, post_vars>>

NextBlend == Blend

SpecBlend == InitBlend /\ [][NextBlend]_vars

(***************************************************************************)
(* postprocess_classes and _postprocess_classes on their own: the raw      *)
(* raster is drawn in InitPost; PostprocessClasses applies                 *)
(* postprocess_classes to it, Apply and Reapply apply _postprocess_classes *)
(* to it and then to the result, with the mask of the raw raster.          *)
(***************************************************************************)
\* the classes are 0, 1 and 2 (argmax over the channels of the logits);
\* pixels that were not visited hold the nodata
ClassPairs == {<<1, 0>>, <<0, 2>>}
ValuePairs == ClassPairs \cup {<<FloodmapNodata, 1>>, <<2, FloodmapNodata>>}

\* for every row the column where a boundary crosses it, the column never
\* moving left from one row to the next
RECURSIVE Staircases(_, _)
Staircases(side, rows) ==
  IF rows = 0 THEN {<< >>}
  ELSE UNION {{Append(b, c) : c \in (IF b = << >> THEN 0 ELSE b[Len(b)])..side} :
                b \in Staircases(side, rows - 1)}

\* a square raster holding lo left of the boundary b and hi from it on; the
\* last column holds the nodata if it was not visited
StaircaseRaster(side, b, lo, hi, last_visited) ==
  [h |-> side, w |-> side,
   v |-> [p \in Pixels(side, side) |->
            IF ~last_visited /\ p[2] = side - 1 THEN FloodmapNodata
            ELSE IF p[2] < b[p[1] + 1] THEN lo ELSE hi]]

\* a rectangle of the value hi on a raster of the value lo
RectangleRaster(side, y0, y1, x0, x1, lo, hi) ==
  [h |-> side, w |-> side,
   v |-> [p \in Pixels(side, side) |->
            IF y0 <= p[1] /\ p[1] <= y1 /\ x0 <= p[2] /\ p[2] <= x1 THEN hi ELSE lo]]

RawRasters ==
  UNION {
    {StaircaseRaster(side, b, k[1], k[2], last_visited) :
        b \in Staircases(side, side), k \in ClassPairs, last_visited \in BOOLEAN}
    \cup
    UNION {{RectangleRaster(side, y0, y1, x0, x1, k[1], k[2]) :
              y1 \in y0..(side - 1), x1 \in x0..(side - 1), k \in ValuePairs} :
             y0 \in 0..(side - 1), x0 \in 0..(side - 1)}
    : side \in 2..MaxSide}

\* mask=(~nan_mask)[0]
visited_mask(raster) == [p \in DOMAIN raster.v |-> raster.v[p] # FloodmapNodata]

\* constants.KUROSIWO_PW_CLASS, the class of permanent water
KUROSIWO_PW_CLASS == 1

\* a tile window <<ylo, yhi, xlo, xhi>> covers the pixel p
in_windows(p, windows) ==
  \E win \in windows :
     win[1] <= p[1] /\ p[1] < win[2] /\ win[3] <= p[2] /\ p[2] < win[4]

\* lines 427-434: tif.nodata written over the window of every tile outside
\* the majority basin
remove_tiles_outside(raster, outside) ==
  [raster EXCEPT !.v = [p \in DOMAIN raster.v |->
                          IF in_windows(p, outside) THEN FloodmapNodata
                                                    ELSE raster.v[p]]]

\* lines 906-929: in the window of every ocean tile the pixels that world
\* cover gives as permanent water (or as NaN) get the permanent-water class
postprocess_world_cover(raster, ocean_tiles, permanent_water_mask) ==
  [raster EXCEPT !.v = [p \in DOMAIN raster.v |->
                          IF in_windows(p, ocean_tiles) /\ p \in permanent_water_mask
                            THEN KUROSIWO_PW_CLASS ELSE raster.v[p]]]

\* the visit-tiles layer of an h x w raster: one tile that is the whole
\* raster, or the two one-pixel tiles of opposite corners
VisitLayers(h, w) ==
  {{<<0, h, 0, w>>}, {<<0, 1, 0, 1>>, <<h - 1, h, w - 1, w>>}}

\* the permanent-water pixels of world cover: all of them, or every other one
CoverKinds(h, w) ==
  {Pixels(h, w), {p \in Pixels(h, w) : (p[1] + p[2]) % 2 = 0}}

InitPost ==
  /\ pc = "post"
  /\ SearchIdle
  /\ EraIdle
  /\ HeurIdle
  /\ MapsIdle
  /\ BlendIdle
  /\ created = {} /\ raised = "none" /\ returned = << >>
  /\ raw_raster \in RawRasters
  /\ final_raster = NoArray /\ once = NoArray /\ twice = NoArray
  /\ visit_layer = {}

\* postprocess_classes(raw_floodmap_path, floodmap_path)
PostprocessClasses ==
  /\ pc = "post"
  /\ final_raster' = postprocess_classes(raw_raster)
  /\ created' = created \cup {"floodmap"}
  /\ pc' = "written"
  /\ UNCHANGED <<search_state, era_vars, heur_vars, raised, returned, maps_vars,
                 blend_vars, raw_raster, once, twice, visit_layer>>

\* remove_tiles_outside(meta_path, basins_df): the visit-tiles layer is read,
\* nodata is written over the tiles outside the majority basin and the
\* other tiles are written back as the layer
RemoveTilesOutside ==
  /\ pc = "written"
  /\ \E layer \in VisitLayers(final_raster.h, final_raster.w) :
     \E visit_mask \in SUBSET layer :
       /\ final_raster' = remove_tiles_outside(final_raster, visit_mask)
       /\ visit_layer' = layer \ visit_mask
  /\ pc' = "removed"
  /\ UNCHANGED <<search_state, era_vars, heur_vars, outcome, maps_vars, blend_vars,
                 raw_raster, once, twice>>

\* postprocess_world_cover(data_folder, meta_fpath, basins_df, basins_geom),
\* which reads the HYBAS_ID_4 that remove_tiles_outside put in the meta
PostprocessWorldCover ==
  /\ pc = "removed"
  /\ \E ocean_tiles \in SUBSET visit_layer :
     \E cover \in CoverKinds(final_raster.h, final_raster.w) :
       final_raster' = postprocess_world_cover(final_raster, ocean_tiles, cover)
  /\ pc' = "covered"
  /\ UNCHANGED <<search_state, era_vars, heur_vars, outcome, maps_vars, blend_vars,
                 raw_raster, once, twice, visit_layer>>

\* _postprocess_classes(class_map, mask)
Apply ==
  /\ pc = "post"
  /\ once' = _postprocess_classes(raw_raster, visited_mask(raw_raster), SizeThreshold)
  /\ pc' = "applied"
  /\ UNCHANGED <<search_state, era_vars, heur_vars, outcome, maps_vars, blend_vars,
                 raw_raster, final_raster, twice, visit_layer>>

\* _postprocess_classes(_postprocess_classes(class_map, mask), mask)
Reapply ==
  /\ pc = "applied"
  /\ twice' = _postprocess_classes(once, visited_mask(raw_raster), SizeThreshold)
  /\ pc' = "reapplied"
  /\ UNCHANGED <<search_state, era_vars, heur_vars, outcome, maps_vars, blend_vars,
                 raw_raster, final_raster, once, visit_layer>>

NextPost ==
  PostprocessClasses \/ RemoveTilesOutside \/ PostprocessWorldCover \/ Apply \/ Reapply

SpecPost == InitPost /\ [][NextPost]_vars

(***************************************************************************)
(* s1_preprocess_edge_heuristic on its own: the tensors are drawn in       *)
(* InitHeur and the function is applied by ApplyHeuristic.                 *)
(***************************************************************************)
\* tensors of TilePixels or twice as many pixels, with or without a NaN
\* pixel and with up to MaxZeros pixels below 1e-5
TensorKinds ==
  {[nan |-> n, zeros |-> z, size |-> k] :
     n \in 0..1, z \in 0..MaxZeros, k \in {TilePixels, 2 * TilePixels}}

RECURSIVE TensorListsOfLen(_)
TensorListsOfLen(n) ==
  IF n = 0 THEN {<< >>}
  ELSE {Append(l, t) : l \in TensorListsOfLen(n - 1), t \in TensorKinds}

TensorLists == UNION {TensorListsOfLen(n) : n \in 1..MaxTensors}

InitHeur ==
  /\ pc = "heuristic"
  /\ SearchIdle
  /\ EraIdle
  /\ MapsIdle
  /\ BlendIdle
  /\ PostIdle
  /\ created = {} /\ raised = "none" /\ returned = << >>
  /\ tensors \in TensorLists
  /\ not_at_edge = "unset"

\* s1_preprocess_edge_heuristic(s1_inps)
ApplyHeuristic ==
  /\ pc = "heuristic"
  /\ not_at_edge' = s1_preprocess_edge_heuristic(tensors)
  /\ pc' = "judged"
  /\ UNCHANGED <<search_state, era_vars, outcome, maps_vars, blend_vars, post_vars, tensors>>

NextHeur == ApplyHeuristic

SpecHeur == InitHeur /\ [][NextHeur]_vars

(***************************************************************************)
(* scripts/dl-era5-land.py.  main submits one download_locally call per    *)
(* month to a ThreadPoolExecutor of n_concurrent worker threads; a worker  *)
(* without a call takes the oldest submitted one, and an exception raised  *)
(* by a call is stored in its future, after which the worker is free for   *)
(* the next call.  Every acquire, every release, every guarded call and    *)
(* every test between them is a step of its thread; a call to the Google   *)
(* APIs or to the reprocessing either returns or raises.                   *)
(* A thread is a record                                                    *)
(*   pc     : its position in download_locally and the functions it calls  *)
(*   task   : the month it downloads, 0 if none                            *)
(*   phase  : which caller of _get_files it is in                          *)
(*   status : status["state"] of its export task                           *)
(*   now    : whether the local variable now of _export_to_gdrive is bound *)
(*   files  : the length of gfiles, then the files still to download       *)
(***************************************************************************)
MaxConcurrent == 2
MaxMonths == 2
MaxGFiles == 2

Months == 1..MaxMonths

\* the states in which _export_to_gdrive goes on polling
ActiveStates == {"UNSUBMITTED", "PENDING", "READY", "RUNNING"}

\* the states for which it raises
KilledStates == {"CANCELLING", "CANCELLED", "FAILED"}

\* the states task.status() reports
TaskStates == ActiveStates \cup KilledStates \cup {"COMPLETED"}

IdleThread ==
  [pc |-> "idle", task |-> 0, phase |-> "none", status |-> "none",
   now |-> "unbound", files |-> 0]

NotExported == [state |-> "none", polled |-> FALSE, result |-> "uncalled"]

InitEra ==
  /\ pc = "era5"
  /\ SearchIdle
  /\ MapsIdle
  /\ BlendIdle
  /\ PostIdle
  /\ HeurIdle
  /\ created = {} /\ raised = "none" /\ returned = << >>
  /\ ssl_lock = "unlocked" /\ ram_lock = "unlocked"
  /\ n_concurrent \in 1..MaxConcurrent
  /\ threads = [t \in 1..n_concurrent |-> IdleThread]
  /\ work_queue = [m \in Months |-> m]
  /\ futures = [m \in Months |-> "pending"]
  /\ drive \in [Months -> 0..MaxGFiles]
  /\ local_files \in SUBSET Months
  /\ exported = [m \in Months |-> NotExported]

\* what the script leaves alone
EraFrame ==
  UNCHANGED <<pc, search_state, outcome, maps_vars, blend_vars, post_vars,
              heur_vars, n_concurrent>>

\* an exception leaves download_locally: it is stored in the future of the
\* call and the worker is free for the next call
Raise(t, exc) ==
  /\ threads' = [threads EXCEPT ![t] = IdleThread]
  /\ futures' = [futures EXCEPT ![threads[t].task] = exc]

\* a free worker takes the oldest submitted call (lines 281-285); lines
\* 187-194: a month found locally is skipped entirely
TakeTask(t) ==
  /\ threads[t].pc = "idle"
  /\ work_queue # << >>
  /\ work_queue' = Tail(work_queue)
  /\ IF Head(work_queue) \in local_files
       THEN /\ futures' = [futures EXCEPT ![Head(work_queue)] = "finished"]
            /\ UNCHANGED threads
       ELSE /\ futures' = [futures EXCEPT ![Head(work_queue)] = "running"]
            /\ threads' = [threads EXCEPT ![t] =
                             [IdleThread EXCEPT !.pc = "band_names",
                                                !.task = Head(work_queue),
                                                !.phase = "existing"]]
  /\ UNCHANGED <<ssl_lock, ram_lock, drive, local_files, exported>>
  /\ EraFrame

\* get_new_band_names (line 199): dataset.size().getInfo() (line 180) is a
\* call to Earth Engine made without a lock; it returns or raises
BandNames(t) ==
  /\ threads[t].pc = "band_names"
  /\ \/ /\ threads' = [threads EXCEPT ![t].pc = "gf_acquire"]
        /\ UNCHANGED futures
     \/ Raise(t, "EEException")
  /\ UNCHANGED <<ssl_lock, ram_lock, work_queue, drive, local_files, exported>>
  /\ EraFrame

\* merge_dataset (line 207): dataset.size().getInfo() (line 168), again
\* without a lock, returns or raises; for a month with no image it returns
\* 0 and imgs[0] (line 175) raises IndexError
MergeDataset(t) ==
  /\ threads[t].pc = "merge"
  /\ \/ /\ threads' = [threads EXCEPT ![t].pc = "ex_acquire"]
        /\ UNCHANGED futures
     \/ Raise(t, "EEException")
     \/ Raise(t, "IndexError")
  /\ UNCHANGED <<ssl_lock, ram_lock, work_queue, drive, local_files, exported>>
  /\ EraFrame

\* the position after ssl_lock.acquire() and after ssl_lock.release()
after_acquire ==
  [gf_acquire |-> "gf_call", ex_acquire |-> "ex_call",
   poll_acquire |-> "poll_call", dl_acquire |-> "dl_call"]
after_release ==
  [gf_release |-> "gf_return", ex_release |-> "ex_while",
   poll_release |-> "ex_while", dl_release |-> "dl_next"]

\* ssl_lock.acquire() (lines 47, 56, 76, 94): blocks while the lock is held
AcquireSsl(t) ==
  /\ threads[t].pc \in DOMAIN after_acquire
  /\ ssl_lock = "unlocked"
  /\ ssl_lock' = "locked"
  /\ threads' = [threads EXCEPT ![t].pc = after_acquire[threads[t].pc]]
  /\ UNCHANGED <<ram_lock, work_queue, futures, drive, local_files, exported>>
  /\ EraFrame

\* ssl_lock.release() (lines 51, 58, 79, 105)
ReleaseSsl(t) ==
  /\ threads[t].pc \in DOMAIN after_release
  /\ ssl_lock' = "unlocked"
  /\ threads' = [threads EXCEPT ![t].pc = after_release[threads[t].pc]]
  /\ UNCHANGED <<ram_lock, work_queue, futures, drive, local_files, exported>>
  /\ EraFrame

\* _get_files, lines 77-78: the listing returns the files or raises
GetFilesCall(t) ==
  /\ threads[t].pc = "gf_call"
  /\ \/ /\ threads' = [threads EXCEPT ![t].pc = "gf_release",
                                      ![t].files = drive[threads[t].task]]
        /\ UNCHANGED futures
     \/ Raise(t, "HttpError")
  /\ UNCHANGED <<ssl_lock, ram_lock, work_queue, drive, local_files, exported>>
  /\ EraFrame

\* _get_files has returned: to download_locally (lines 202-209), which skips
\* the export if the files exist, or to _download_by_fname (lines 87-88),
\* which asserts that they exist
GotFiles(t) ==
  /\ threads[t].pc = "gf_return"
  /\ IF threads[t].phase = "existing"
       THEN /\ threads' = [threads EXCEPT
                             ![t].pc = IF threads[t].files > 0 THEN "gf_acquire"
                                                               ELSE "merge",
                             ![t].phase = IF threads[t].files > 0 THEN "download"
                                                                  ELSE "existing"]
            /\ UNCHANGED futures
       ELSE IF threads[t].files > 0
         THEN /\ threads' = [threads EXCEPT ![t].pc = "dl_acquire"]
              /\ UNCHANGED futures
         ELSE Raise(t, "AssertionError")
  /\ UNCHANGED <<ssl_lock, ram_lock, work_queue, drive, local_files, exported>>
  /\ EraFrame

\* _export_to_gdrive, lines 48-50: the task is created and started and its
\* status is read, or one of the calls raises
ExportStart(t) ==
  /\ threads[t].pc = "ex_call"
  /\ \/ /\ \E state \in TaskStates :
             threads' = [threads EXCEPT ![t].pc = "ex_release",
                                        ![t].status = state]
        /\ UNCHANGED futures
     \/ Raise(t, "HttpError")
  /\ UNCHANGED <<ssl_lock, ram_lock, work_queue, drive, local_files, exported>>
  /\ EraFrame

\* lines 53-55: the test of the while loop; the body sleeps and binds now
WhileStatus(t) ==
  /\ threads[t].pc = "ex_while"
  /\ threads' = [threads EXCEPT
                   ![t].pc = IF threads[t].status \in ActiveStates
                               THEN "poll_acquire" ELSE "ex_return",
                   ![t].now = IF threads[t].status \in ActiveStates
                                THEN "bound" ELSE threads[t].now]
  /\ UNCHANGED <<ssl_lock, ram_lock, work_queue, futures, drive, local_files,
                 exported>>
  /\ EraFrame

\* line 57: the status is read again, or the call raises
PollStatus(t) ==
  /\ threads[t].pc = "poll_call"
  /\ \/ /\ \E state \in TaskStates :
             threads' = [threads EXCEPT ![t].pc = "poll_release",
                                        ![t].status = state]
        /\ UNCHANGED futures
     \/ Raise(t, "HttpError")
  /\ UNCHANGED <<ssl_lock, ram_lock, work_queue, drive, local_files, exported>>
  /\ EraFrame

\* how lines 61-64 end: the exception for a killed task, now - start if now
\* is bound, UnboundLocalError if it is read unbound
export_result(status, now) ==
  IF status \in KilledStates THEN "Exception"
  ELSE IF now = "unbound" THEN "UnboundLocalError"
  ELSE "elapsed"

\* lines 60-64, then line 212 of download_locally; a completed export has
\* put a file on the drive
ExportReturn(t) ==
  /\ threads[t].pc = "ex_return"
  /\ exported' = [exported EXCEPT ![threads[t].task] =
                    [state |-> threads[t].status,
                     polled |-> threads[t].now = "bound",
                     result |-> export_result(threads[t].status, threads[t].now)]]
  /\ \E n \in 1..MaxGFiles :
       drive' = [drive EXCEPT ![threads[t].task] =
                   IF threads[t].status = "COMPLETED" THEN n ELSE @]
  /\ IF export_result(threads[t].status, threads[t].now) = "elapsed"
       THEN /\ threads' = [threads EXCEPT ![t].pc = "gf_acquire",
                                          ![t].phase = "download"]
            /\ UNCHANGED futures
       ELSE Raise(t, export_result(threads[t].status, threads[t].now))
  /\ UNCHANGED <<ssl_lock, ram_lock, work_queue, local_files>>
  /\ EraFrame

\* _download_by_fname, lines 95-104: a file is downloaded and deleted from
\* the drive, or one of the calls raises
DownloadFile(t) ==
  /\ threads[t].pc = "dl_call"
  /\ \/ /\ threads' = [threads EXCEPT ![t].pc = "dl_release"]
        /\ drive' = [drive EXCEPT ![threads[t].task] = @ - 1]
        /\ UNCHANGED futures
     \/ /\ Raise(t, "HttpError")
        /\ UNCHANGED drive
  /\ UNCHANGED <<ssl_lock, ram_lock, work_queue, local_files, exported>>
  /\ EraFrame

\* lines 92 and 107-111: the next file, or the return to download_locally
NextFile(t) ==
  /\ threads[t].pc = "dl_next"
  /\ threads' = [threads EXCEPT
                   ![t].pc = IF threads[t].files > 1 THEN "dl_acquire"
                                                     ELSE "ram_acquire",
                   ![t].files = threads[t].files - 1]
  /\ UNCHANGED <<ssl_lock, ram_lock, work_queue, futures, drive, local_files,
                 exported>>
  /\ EraFrame

\* ram_lock.acquire() (line 215)
AcquireRam(t) ==
  /\ threads[t].pc = "ram_acquire"
  /\ ram_lock = "unlocked"
  /\ ram_lock' = "locked"
  /\ threads' = [threads EXCEPT ![t].pc = "ram_call"]
  /\ UNCHANGED <<ssl_lock, work_queue, futures, drive, local_files, exported>>
  /\ EraFrame

\* _reprocess_to_16bit (line 216) writes the local file, or raises: before
\* line 132 opened the file for writing, or after it, the file then existing
\* incomplete
Reprocess(t) ==
  /\ threads[t].pc = "ram_call"
  /\ \/ /\ threads' = [threads EXCEPT ![t].pc = "ram_release"]
        /\ local_files' = local_files \cup {threads[t].task}
        /\ UNCHANGED futures
     \/ /\ Raise(t, "MemoryError")
        /\ UNCHANGED local_files
     \/ /\ Raise(t, "MemoryError")
        /\ local_files' = local_files \cup {threads[t].task}
  /\ UNCHANGED <<ssl_lock, ram_lock, work_queue, drive, exported>>
  /\ EraFrame

\* ram_lock.release() (line 217); the call is still running
ReleaseRam(t) ==
  /\ threads[t].pc = "ram_release"
  /\ ram_lock' = "unlocked"
  /\ threads' = [threads EXCEPT ![t].pc = "close_files"]
  /\ UNCHANGED <<ssl_lock, work_queue, futures, drive, local_files, exported>>
  /\ EraFrame

\* the end of download_locally (lines 220-222): the file pointers are
\* closed, the call returns and its future is done
FinishDownload(t) ==
  /\ threads[t].pc = "close_files"
  /\ threads' = [threads EXCEPT ![t] = IdleThread]
  /\ futures' = [futures EXCEPT ![threads[t].task] = "finished"]
  /\ UNCHANGED <<ssl_lock, ram_lock, work_queue, drive, local_files, exported>>
  /\ EraFrame

NextEra ==
  \/ \E t \in DOMAIN threads : TakeTask(t)
  \/ \E t \in DOMAIN threads : BandNames(t)
  \/ \E t \in DOMAIN threads : MergeDataset(t)
  \/ \E t \in DOMAIN threads : AcquireSsl(t)
  \/ \E t \in DOMAIN threads : ReleaseSsl(t)
  \/ \E t \in DOMAIN threads : GetFilesCall(t)
  \/ \E t \in DOMAIN threads : GotFiles(t)
  \/ \E t \in DOMAIN threads : ExportStart(t)
  \/ \E t \in DOMAIN threads : WhileStatus(t)
  \/ \E t \in DOMAIN threads : PollStatus(t)
  \/ \E t \in DOMAIN threads : ExportReturn(t)
  \/ \E t \in DOMAIN threads : DownloadFile(t)
  \/ \E t \in DOMAIN threads : NextFile(t)
  \/ \E t \in DOMAIN threads : AcquireRam(t)
  \/ \E t \in DOMAIN threads : Reprocess(t)
  \/ \E t \in DOMAIN threads : ReleaseRam(t)
  \/ \E t \in DOMAIN threads : FinishDownload(t)

SpecEra == InitEra /\ [][NextEra]_vars

(***************************************************************************)
(* Properties                                                              *)
(***************************************************************************)
\* the tiles of lattice g within +-add of tile t in both axes
Neighbourhood(t, g, add) ==
  {c \in Cells(g) : Abs(c[1] - t[1]) <= add /\ Abs(c[2] - t[2]) <= add}

\* C1: no tile coordinate is popped from the frontier more than once, and
\* when the loop has exited the number of True cells of the visited mask
\* equals the number of pops performed.
C1_PoppedOnce ==
  /\ NoDup(visit_tiles)
  /\ n_visited = Len(visit_tiles)
  /\ pc = "done" => Cardinality(visited) = n_visited

\* a finished run that popped three tiles, one of them flooded
C1_Witness == pc = "done" /\ n_visited >= 3 /\ n_flooded >= 1

\* C2: every coordinate on the frontier, placed by seeding, by the prescribed
\* tiles or by flood-fill expansion, lies inside the W x H primary lattice.
C2_FrontierInBounds ==
  \A i \in 1..Len(tiles) : InBounds(tiles[i], grid_size)

\* the flooded corner tile of a lattice wider than one tile has just been
\* expanded (its window is clipped on two sides) and the frontier is not empty
C2_Witness ==
  /\ pc = "loop" /\ last.tile = <<0, 0>> /\ last.flood_cls = [bg |-> TilePixels - 2, pw |-> 0, fl |-> 2]
  /\ grid_size[1] > 1 /\ Len(tiles) > 0

\* C3: the search loop terminates; it never pops more than max_tiles tiles,
\* outside and unusable ones included, and when it has exited the frontier
\* is empty or the number of popped tiles equals max_tiles.
C3_Terminates ==
  /\ <>(pc = "done")
  /\ [](n_visited <= max_tiles /\ Len(visit_tiles) = n_visited)
  /\ [](pc = "done" => (Len(tiles) = 0 \/ n_visited = max_tiles))

\* the loop stopped at the cap with tiles left on the frontier, having
\* counted an outside tile
C3_Witness ==
  pc = "done" /\ Len(tiles) > 0 /\ n_visited = max_tiles /\ n_outside >= 1

\* C4: when the popped tile is disposed as Flooded, exactly the tiles of the
\* full 7x7 window (dx, dy in -3..+3) clipped to the lattice that are neither
\* visited nor already queued are appended to the frontier.
C4_FullWindow ==
  [][(pc = "loop" /\ n_flooded' = n_flooded + 1) =>
       LET rest == Tail(tiles)
           want == {c \in Neighbourhood(Head(tiles), grid_size, 3) :
                      c \notin visited' /\ c \notin Elems(rest)}
       IN /\ Len(tiles') = Len(rest) + Cardinality(want)
          /\ SubSeq(tiles', 1, Len(rest)) = rest
          /\ Elems(tiles') = Elems(rest) \cup want]_vars

\* C5: create_initial_tiles returns exactly the union of the 5x5
\* neighbourhoods (dx, dy in -2..+2, clipped to the lattice) of the tiles
\* selected by the winning rule, no coordinate appearing twice.
C5_SeedMargin ==
  pc = "seeded" =>
    LET S == Elems(initial_selection(rivers_df, grid_size, min_river_size, seed_cap).sel)
    IN /\ Elems(tiles) = UNION {Neighbourhood(t, grid_size, 2) : t \in S}
       /\ NoDup(tiles)

\* C6: when no river yields a tile, create_initial_tiles returns exactly the
\* tiles within +-2 of the centre tile (W // 2, H // 2), clipped to the
\* lattice: 25 tiles on a 10x10 lattice.
C6_CentreFallback ==
  (pc = "seeded" /\
   initial_selection(rivers_df, grid_size, min_river_size, seed_cap).rule = 3) =>
    /\ Elems(tiles) =
         Neighbourhood(<<grid_size[1] \div 2, grid_size[2] \div 2>>, grid_size, 2)
    /\ grid_size = ExampleGrid => Len(tiles) = 25

\* C7: when seeding falls back to rule 2, the number of river tiles selected
\* before the margin expansion never exceeds the max_tiles argument of
\* create_initial_tiles, whatever min_river_size is.
C7_Rule2Capped ==
  pc = "seeded" =>
    LET r == initial_selection(rivers_df, grid_size, min_river_size, seed_cap)
    IN r.rule = 2 => Len(r.sel) <= seed_cap

\* more than half of the pixels are permanent water, or fewer than a tenth
\* are background
IsLargeWater(cls) ==
  \/ 2 * cls.pw > cls.bg + cls.pw + cls.fl
  \/ 10 * cls.bg < cls.bg + cls.pw + cls.fl

\* more than 5% of the pixels are flood
ExceedsFlood(cls) ==
  20 * cls.fl > cls.bg + cls.pw + cls.fl

\* C8: a classified tile with more than 50% permanent-water pixels or fewer
\* than 10% background pixels adds nothing to the frontier and does not
\* increment the flooded count, whatever its flood fraction.
C8_WaterOutranksFlood ==
  [][(pc = "loop" /\ Len(fill_tiles') = Len(fill_tiles) + 1
        /\ IsLargeWater(last'.flood_cls)) =>
       (tiles' = Tail(tiles) /\ n_flooded' = n_flooded
          /\ n_permanent' = n_permanent + 1)]_vars

\* a tile with hardly any background and nearly all pixels flood was just
\* classified as lying in a large water body
C8_Witness ==
  /\ Len(fill_tiles) >= 1 /\ last.tile = fill_tiles[Len(fill_tiles)]
  /\ IsLargeWater(last.flood_cls) /\ ExceedsFlood(last.flood_cls)
  /\ n_permanent >= 1

\* the popped tile is out of bounds, or has no logits, or an input has a NaN
\* pixel or at least 5% near-zero pixels
Unusable(l) ==
  \/ ~l.contained
  \/ l.flood_logits = "None"
  \/ \E i \in 1..Len(l.s1_inps) :
       l.s1_inps[i].nan > 0 \/ 20 * l.s1_inps[i].zeros >= l.s1_inps[i].size

\* C9: a popped tile that is out of bounds, without logits or failing the
\* edge heuristic is counted in the outside counter exactly once, appends
\* nothing to the frontier, writes nothing to the class raster or the export
\* rasters, and the loop goes on.
C9_SkipUnusable ==
  [][(pc = "loop" /\ Len(visit_tiles') = Len(visit_tiles) + 1 /\ Unusable(last')) =>
       /\ n_outside' = n_outside + 1
       /\ tiles' = Tail(tiles)
       /\ out_tif' = out_tif /\ s1_tifs' = s1_tifs
       /\ fill_tiles' = fill_tiles /\ geom_stats' = geom_stats
       /\ n_flooded' = n_flooded /\ n_permanent' = n_permanent
       /\ pc' = "loop"]_vars

\* with rasters being exported, a tile with logits but a NaN input was just
\* skipped after an earlier tile had been classified and written
C9_Witness ==
  /\ pc = "loop" /\ export_s1 /\ n_outside >= 1 /\ Len(fill_tiles) >= 1
  /\ last.contained /\ last.flood_logits = "logits"
  /\ \E i \in 1..Len(last.s1_inps) : last.s1_inps[i].nan > 0
  /\ last.tile \notin out_tif /\ last.tile \notin s1_tifs

\* C10: the oracle is invoked at most once for every (offset lattice, cell)
\* pair; a cell is cached when and only when it was requested, a cell inside
\* its lattice after exactly one invocation (also when the answer was no
\* logits), a cell outside its lattice as absent without any invocation.
C10_OffsetOnce ==
  /\ \A t \in DOMAIN oracle_calls :
       t[1] \in OffsetKeys =>
         /\ oracle_calls[t] <= 1
         /\ InBounds(t[2], tile_grids[t[1]])
         /\ t[2] \in DOMAIN offset_cache[t[1]]
  /\ \A k \in OffsetKeys : \A c \in DOMAIN offset_cache[k] :
       IF InBounds(c, tile_grids[k])
         THEN <<k, c>> \in DOMAIN oracle_calls
         ELSE offset_cache[k][c] = "None" /\ <<k, c>> \notin DOMAIN oracle_calls

\* two classified primary tiles requested the same offset cell, for which
\* the oracle returned no logits, and it was invoked once
C10_Witness ==
  \E t1, t2 \in Elems(fill_tiles) :
    /\ t1 # t2
    /\ \E tg \in RequestTargets(t1) \cap RequestTargets(t2) :
         /\ InBounds(tg[2], tile_grids[tg[1]])
         /\ tg[2] \in DOMAIN offset_cache[tg[1]]
         /\ offset_cache[tg[1]][tg[2]] = "None"
         /\ tg \in DOMAIN oracle_calls /\ oracle_calls[tg] = 1

\* C11: the tile geometries progressively_grow_floodmaps returns hold one
\* entry for every tile popped from the frontier during the run, the tiles
\* classified outside or unusable included.
C11_ReturnsEveryPop ==
  /\ pc = "done" => return_value.tiles = visit_tiles
  /\ returned # << >> => returned[1].tiles = visit_tiles

\* C12: whenever the search loop has exited, by an empty frontier or at the
\* visit cap, the function goes on to run the postprocessor, which writes
\* the final class raster, and returns its outputs without raising.
C12_ReturnsAfterLoop ==
  [][pc = "done" =>
       /\ pc' = "returned"
       /\ raised' = "none"
       /\ "floodmap" \in created'
       /\ returned' = <<return_value>>]_vars

\* the function was aborted by a failed assertion before a tile was popped,
\* the oracle invoked or an output raster created
AbortedEarly ==
  /\ pc = "raised" /\ raised = "AssertionError"
  /\ visit_tiles = << >> /\ n_visited = 0 /\ visited = {}
  /\ last = NoLast /\ oracle_calls = << >>
  /\ created = {} /\ out_tif = {} /\ s1_tifs = {}

\* two of the rasters differ in resolution or in reference system
Mismatch(tifs) ==
  \E i, j \in 1..Len(tifs) : tifs[i].res # tifs[j].res \/ tifs[i].crs # tifs[j].crs

\* a raster's resolution differs from the first raster's by more than
\* 1e-8 + 1e-5 * abs(first), difference and tolerance as float64 arithmetic
\* gives them, or its reference system is not the first raster's
OutOfTolerance(tifs) ==
  \E i \in 2..Len(tifs) :
    \/ \E k \in 1..2 : /\ tifs[i].res[k] # tifs[1].res[k]
                        /\ ~isclose(tifs[i].res[k], tifs[1].res[k])
    \/ tifs[i].crs # tifs[1].crs

\* C18 as stated: if any two of the input rasters differ in pixel resolution
\* or in reference system, the function aborts with a failure before any
\* tile is popped, before the oracle is invoked and before any output
\* raster is created.
C18_MismatchAborts ==
  (Mismatch(inp_tifs) /\ pc # "start") => AbortedEarly

\* C18 amended: if a raster's resolution differs from the first raster's by
\* more than the tolerance of numpy.allclose as evaluated in float64, or its
\* reference system differs from the first raster's, the function aborts
\* with an AssertionError before any tile is popped, before the oracle is
\* invoked and before any output raster is created.
C18_OutOfToleranceAborts ==
  (pc # "start" /\ OutOfTolerance(inp_tifs)) => AbortedEarly

\* the run was aborted for a raster in the first one's reference system
\* whose resolution is out of tolerance by the rounding of float64 alone
C18_Witness ==
  /\ AbortedEarly
  /\ inp_tifs = <<WideTif, WideTieTif, WideTif>>

\* the bounding box in pixel space, given in half pixels, rounded inward
\* to whole pixels and shrunk by one pixel per side
ShrunkBox(b) ==
  LET up(n) == IF n % 2 = 0 THEN n \div 2 ELSE (n + 1) \div 2
      down(n) == IF n % 2 = 0 THEN n \div 2 ELSE (n - 1) \div 2
  IN <<up(b[1]) + 1, up(b[2]) + 1, down(b[3]) - 1, down(b[4]) - 1>>

\* the shrunk box has non-positive width or non-positive height
Degenerate(b) ==
  ShrunkBox(b)[3] - ShrunkBox(b)[1] <= 0 \/ ShrunkBox(b)[4] - ShrunkBox(b)[2] <= 0

\* C17: mk_grid signals an InvalidFootprint failure and returns no lattices
\* whenever the shrunk pixel-space bounding box of the validity polygon has
\* non-positive width or non-positive height.
C17_InvalidFootprint ==
  (pc = "gridded" /\ Degenerate(geom_bounds)) =>
    (raised = "InvalidFootprint" /\ grids = << >>)

\* C20 as stated: for every tile size s and every coordinate valid in an
\* offset lattice, the tile of the x-, y- and xy-offset lattice is the
\* primary lattice's tile at the same coordinate translated by exactly s/2
\* pixels in x only, y only and both axes (stated in half pixels: twice the
\* offset tile is twice the primary tile plus s), and each offset lattice
\* has exactly one tile fewer than the primary lattice in each shifted
\* dimension (in which the primary lattice has a tile).
C20_HalfTileShift ==
  pc = "gridded" =>
    \A k \in OffsetKeys :
      /\ \A i \in 1..2 :
           grids[<<0, 0>>].shape[i] >= 1 =>
             grids[k].shape[i] = grids[<<0, 0>>].shape[i] - k[i]
      /\ \A c \in Cells(grids[k].shape) :
           LET o == tile_box(grids[k], c)
               q == tile_box(grids[<<0, 0>>], c)
           IN /\ 2 * o[1] = 2 * q[1] + k[1] * gridsize
              /\ 2 * o[3] = 2 * q[3] + k[1] * gridsize
              /\ 2 * o[2] = 2 * q[2] + k[2] * gridsize
              /\ 2 * o[4] = 2 * q[4] + k[2] * gridsize

\* C20 amended: the translation is s // 2 pixels (half a tile exactly when
\* s is even), every tile valid in an offset lattice is also valid in the
\* primary lattice, and an offset lattice has one tile fewer than the
\* primary lattice in each shifted dimension in which the primary lattice
\* has a tile at all (none otherwise).
C20_FloorHalfTileShift ==
  pc = "gridded" =>
    \A k \in OffsetKeys :
      /\ \A i \in 1..2 :
           grids[k].shape[i] =
             IF grids[<<0, 0>>].shape[i] >= 1
               THEN grids[<<0, 0>>].shape[i] - k[i] ELSE 0
      /\ \A c \in Cells(grids[k].shape) :
           LET o == tile_box(grids[k], c)
               q == tile_box(grids[<<0, 0>>], c)
               h == gridsize \div 2
           IN /\ InBounds(c, grids[<<0, 0>>].shape)
              /\ o = <<q[1] + k[1] * h, q[2] + k[2] * h,
                       q[3] + k[1] * h, q[4] + k[2] * h>>

\* lattices of an odd tile size were built and the lattice offset in both
\* axes has two tiles
C20_Witness ==
  /\ pc = "gridded" /\ gridsize = 3
  /\ Cardinality(Cells(grids[<<1, 1>>].shape)) >= 2

\* the call got past lines 157-163 to the loop over the groups
ReachedLoop ==
  \/ maps_args.search_idxs
  \/ ~maps_args.prescribed_tiles /\ tuplets.found

\* C19: create_flood_maps processes the image groups in order and stops as
\* soon as a group's search reports flooding (n_flooded >= 50) or the groups
\* run out: no group after the first flooding group is processed, the
\* returned list has one meta per processed group, a meta has flooding =
\* true exactly when its n_flooded >= 50, and only the last returned meta can
\* have flooding = true.
C19_StopsAtFlooding ==
  /\ processed = [i \in 1..Len(processed) |-> i]
  /\ \A i \in 1..(Len(processed) - 1) : search_idxs[i].n_flooded < 50
  /\ (pc \in {"returned", "raised"} /\ ReachedLoop) =>
       /\ raised = "none" /\ returned = <<metas>>
       /\ Len(metas) = Len(processed)
       /\ \A i \in 1..Len(metas) :
            /\ metas[i].n_flooded = search_idxs[i].n_flooded
            /\ metas[i].flooding <=> metas[i].n_flooded >= 50
            /\ metas[i].flooding => i = Len(metas)
       /\ \/ Len(processed) = Len(search_idxs)
          \/ Len(metas) > 0 /\ metas[Len(metas)].flooding

\* the weight with which neighbour d is applied at pixel p: its weight
\* matrix inside its slice, nothing outside
AppliedWeight(d, h, w, p) ==
  IF p \in slice_of(d, h, w)
    THEN weight_matrices(h, w)[weight_index[d][1]][weight_index[d][2]][p]
    ELSE F64Zero

\* the sum, as a real number, of a list of float64
real_sum[terms \in Seq(Float64)] ==
  IF terms = << >> THEN F64Zero
  ELSE real_add[real_sum[SubSeq(terms, 1, Len(terms) - 1)], terms[Len(terms)]]

\* the own-tile weight and the eight applied neighbour weights at pixel p,
\* in the order in which the blend adds them
WeightsAt(h, w, p) ==
  <<AppliedWeight("tl", h, w, p), AppliedWeight("up", h, w, p),
    AppliedWeight("tr", h, w, p), AppliedWeight("le", h, w, p),
    weight_matrices(h, w)[2][2][p],
    AppliedWeight("ri", h, w, p), AppliedWeight("bl", h, w, p),
    AppliedWeight("do", h, w, p), AppliedWeight("br", h, w, p)>>

\* every neighbour weight matrix is zero outside the slice it is applied to
ZeroOutsideSlice(h, w, p) ==
  \A d \in Dirs :
    p \notin slice_of(d, h, w) =>
      weight_matrices(h, w)[weight_index[d][1]][weight_index[d][2]][p] = F64Zero

\* 2^-50, four units in the last place of 1.0
RoundingSlack == [m |-> <<1>>, e |-> -50]

\* x is within 2^-50 of 1
NearOne(x) == f64_le[real_abs_sub[x, F64One], RoundingSlack]

AllPresent == \A d \in Dirs : adjacent[d].present
AllAbsent == \A d \in Dirs : ~adjacent[d].present

\* all-ones logits were blended with eight all-ones neighbours
OnesBlended ==
  /\ pc = "blended" /\ AllPresent /\ blended.raised = "none"
  /\ logits.v = OnesTile(logits.h, logits.w)
  /\ adjacent["tl"].v = OnesTile(logits.h, logits.w)

\* C14 as stated: with all eight neighbours present, at every pixel the
\* own-tile weight plus the weights of the neighbour contributions applied
\* there sum to exactly 1, every neighbour weight matrix being zero outside
\* the slice it is applied to; so blending all-ones logits with all-ones
\* neighbours gives 1 at every pixel.
C14_WeightsSumToOne ==
  (pc = "blended" /\ AllPresent /\ logits.h >= 2 /\ logits.w >= 2) =>
    \A p \in Pixels(logits.h, logits.w) :
      /\ real_sum[WeightsAt(logits.h, logits.w, p)] = F64One
      /\ ZeroOutsideSlice(logits.h, logits.w, p)
      /\ OnesBlended => blended.out[p] = F64One

\* C14 amended: with all eight neighbours present, at every pixel the
\* own-tile weight plus the weights of the neighbour contributions applied
\* there, which are float64 products, sum to 1 up to rounding: their sum as
\* real numbers, and their sum accumulated in float64 by the blend (the
\* blend of all-ones logits with all-ones neighbours), are within 2^-50 of
\* 1; every neighbour weight matrix is exactly zero outside the slice it is
\* applied to.
C14_WeightsSumToOneRounded ==
  (pc = "blended" /\ AllPresent /\ logits.h >= 2 /\ logits.w >= 2) =>
    \A p \in Pixels(logits.h, logits.w) :
      /\ NearOne(real_sum[WeightsAt(logits.h, logits.w, p)])
      /\ ZeroOutsideSlice(logits.h, logits.w, p)
      /\ OnesBlended => NearOne(blended.out[p])

\* all-ones logits of 6x6 pixels were blended with eight all-ones
\* neighbours, and at pixel (3, 3) the result is not 1
C14_Witness ==
  /\ OnesBlended
  /\ logits.h = 6 /\ logits.w = 6
  /\ blended.out[<<3, 3>>] # F64One

\* C15 as stated: with all eight neighbours absent the blended output equals
\* the tile's own logits exactly at every pixel.
C15_AbsentIsIdentity ==
  (pc = "blended" /\ AllAbsent /\ blended.raised = "none") =>
    \A p \in Pixels(logits.h, logits.w) :
      blended.out[p] = f64_int[logits.v[p]]

\* C15 amended: with all eight neighbours absent the blended output is, at
\* every pixel, the tile's own logit multiplied by the own-tile weight
\* weights[1, 1], which is below 1 at every pixel: the output equals the own
\* logits only where they are 0.
C15_AbsentIsAttenuated ==
  (pc = "blended" /\ AllAbsent /\ blended.raised = "none") =>
    \A p \in Pixels(logits.h, logits.w) :
      LET own == weight_matrices(logits.h, logits.w)[2][2][p]
      IN /\ blended.out[p] = f64_mul[f64_int[logits.v[p]], own]
         /\ f64_le[own, F64One] /\ own # F64One
         /\ (blended.out[p] = f64_int[logits.v[p]]) <=> logits.v[p] = 0

\* logits of 4x4 pixels that number the pixels were blended with no
\* neighbour present
C15_Witness ==
  /\ pc = "blended" /\ AllAbsent /\ blended.raised = "none"
  /\ logits.h = 4 /\ logits.w = 4 /\ logits.v = RampTile(4, 4)

(***************************************************************************)
(* C13: postprocess_classes preserves the nodata mask: a pixel of the      *)
(* raster it writes is nodata if and only if the same pixel of the raster  *)
(* it read is nodata.                                                      *)
(***************************************************************************)
C13_NodataPreserved ==
  pc = "written" =>
    /\ DOMAIN final_raster.v = DOMAIN raw_raster.v
    /\ \A p \in DOMAIN raw_raster.v :
         (final_raster.v[p] = FloodmapNodata) <=> (raw_raster.v[p] = FloodmapNodata)

\* a raster with nodata and classified pixels was postprocessed, and the
\* smoothing changed the class of a classified pixel
C13_Witness ==
  /\ pc = "written"
  /\ \E p \in DOMAIN raw_raster.v : raw_raster.v[p] = FloodmapNodata
  /\ \E q \in DOMAIN raw_raster.v :
       /\ raw_raster.v[q] # FloodmapNodata
       /\ final_raster.v[q] # raw_raster.v[q]

(***************************************************************************)
(* C16: the postprocess step is idempotent: _postprocess_classes applied   *)
(* to its own output, with the same visited mask, returns that output      *)
(* unchanged.                                                              *)
(***************************************************************************)
C16_Idempotent ==
  pc = "reapplied" => twice = once

(***************************************************************************)
(* C21: at every point of the search loop, for the seeded and for the      *)
(* prescribed frontier, the frontier holds no coordinate twice and no      *)
(* coordinate whose visited flag is True.                                  *)
(***************************************************************************)
C21_FrontierFresh ==
  pc = "loop" =>
    /\ NoDup(tiles)
    /\ \A i \in 1..Len(tiles) : tiles[i] \notin visited

\* a flooded tile has just been expanded, another tile of its window was
\* already visited and two tiles wait on the frontier
C21_Witness ==
  /\ pc = "loop"
  /\ last.flood_logits = "logits"
  /\ ~large_water_body(last.flood_cls) /\ tile_flooded(ks_water_stats(last.flood_cls))
  /\ Len(tiles) >= 2
  /\ \E c \in visited :
       /\ c # last.tile
       /\ c \in Elems(sel_new_tiles_big_window(last.tile[1], last.tile[2],
                                              grid_size[1], grid_size[2], FloodAdd))

(***************************************************************************)
(* C22: the frontier is first-in first-out: tiles are popped in the order  *)
(* in which they were placed on it, every initial tile before any tile     *)
(* added by an expansion, and the tiles added by the expansion of an       *)
(* earlier pop before those added by the expansion of a later pop.         *)
(***************************************************************************)
\* the frontier as the setup makes it (lines 284-296)
initial_frontier ==
  IF ~prescribed_tiles.given
    THEN create_initial_tiles(rivers_df, grid_size, min_river_size, seed_cap)
    ELSE get_grid_idx(grid_size, prescribed_tiles.geoms)

\* the pops so far and the frontier, one after the other: the order in which
\* the tiles were placed
placement_order == visit_tiles \o tiles

\* the initial tiles head the placement order
InitialFirst ==
  pc = "loop" =>
    /\ Len(placement_order) >= Len(initial_frontier)
    /\ SubSeq(placement_order, 1, Len(initial_frontier)) = initial_frontier

\* an iteration pops the first tile in placement order and places its new
\* tiles behind all those waiting
PopsOldest ==
  pc = "loop" /\ pc' = "loop" =>
    /\ Len(visit_tiles') = Len(visit_tiles) + 1
    /\ Len(placement_order') >= Len(placement_order)
    /\ SubSeq(placement_order', 1, Len(placement_order)) = placement_order

C22_Fifo == []InitialFirst /\ [][PopsOldest]_vars

\* two initial tiles were popped and both expanded, a tile added by the
\* first expansion was popped next and the one added by the second waits
C22_Witness ==
  /\ pc = "loop"
  /\ Len(initial_frontier) = 2
  /\ Len(visit_tiles) = 3
  /\ n_flooded >= 2
  /\ tiles # << >>

(***************************************************************************)
(* C23: a popped tile is classified outside at step 2 exactly when its     *)
(* geometry is not fully contained in the pixel-aligned footprint returned *)
(* by mk_grid; for such a tile the oracle is not invoked and no offset     *)
(* cell is requested or cached; every tile contained in it proceeds to the *)
(* oracle.                                                                 *)
(***************************************************************************)
\* the iteration ended at step 2: the tile counted outside, the oracle not
\* invoked and the caches of the offset lattices untouched
StoppedAtBounds ==
  /\ n_outside' = n_outside + 1
  /\ last'.flood_logits = "uncalled"
  /\ offset_cache' = offset_cache
  /\ oracle_calls' = oracle_calls

\* an iteration of the loop
Iteration == pc = "loop" /\ pc' = "loop"

\* as stated: the test is against the pixel-aligned footprint
C23_OutsideIffNotInAlignedBox ==
  [][Iteration =>
       (StoppedAtBounds <=> ~contains_pixel_aligned(footprint_gaps, Head(tiles)))]_vars

\* amended: the test is against viable_footprint itself
C23_OutsideIffNotInFootprint ==
  [][Iteration =>
       /\ StoppedAtBounds <=> Head(tiles) \in footprint_gaps
       /\ Head(tiles) \notin footprint_gaps => last'.flood_logits # "uncalled"]_vars

\* a tile inside the pixel-aligned footprint that viable_footprint does not
\* contain was popped and counted outside without the oracle, after a tile
\* that was classified
C23_Witness ==
  /\ pc = "loop"
  /\ last.tile \in footprint_gaps
  /\ contains_pixel_aligned(footprint_gaps, last.tile)
  /\ last.flood_logits = "uncalled"
  /\ n_outside >= 1
  /\ fill_tiles # << >>

(***************************************************************************)
(* C24: s1_preprocess_edge_heuristic rejects a tile if and only if some    *)
(* input contains a NaN pixel or has more near-zero pixels than 5% of its  *)
(* pixel count; an input with exactly 5% near-zero pixels and no NaN is    *)
(* accepted.                                                               *)
(***************************************************************************)
C24_RejectsAboveThreshold ==
  pc = "judged" =>
    (~not_at_edge <=>
       \E i \in 1..Len(tensors) :
          tensors[i].nan > 0 \/ 20 * tensors[i].zeros > tensors[i].size)

(***************************************************************************)
(* C25: for a primary tile (x, y), get_adjacent_logits takes left/right    *)
(* from cells (x-1, y) and (x, y) of the x-offset lattice, up/down from    *)
(* cells (x, y-1) and (x, y) of the y-offset lattice and the corners from  *)
(* cells (x-1, y-1), (x, y-1), (x-1, y), (x, y) of the xy-offset lattice;  *)
(* each such cell overlaps exactly the half-tile strip or quarter-tile     *)
(* block of the primary tile on that side, and the blend reads the         *)
(* mirrored half or quarter of the neighbour that covers those same        *)
(* pixels.                                                                 *)
(***************************************************************************)
\* the lattices of a footprint whose primary lattice has 3 x 3 tiles of s
\* pixels, the low corner of tile (0, 0) at pixel (0, 0)
lattices_3x3(s) == mk_grid(<<-3, -3, 2 * (3 * s + 1), 2 * (3 * s + 1)>>, s).grids

\* the raster pixels <<row, col>> under the slice parts of a tile at box b
pixels_under(b, parts, s) ==
  {<<b[2] + r, b[1] + c>> : r \in part_range(parts[1], s),
                            c \in part_range(parts[2], s)}

\* the request for direction d of the primary tile (1, 1)
request_of(d) ==
  CHOOSE r \in {adjacent_requests(1, 1)[i] : i \in 1..8} : r[1] = d

\* the offset cell of direction d overlaps the primary tile (1, 1) exactly in
\* the slice of d, and the slice the blend reads from it lies on those pixels
neighbour_covers(d, s) ==
  LET g == lattices_3x3(s)
      own == tile_box(g[<<0, 0>>], <<1, 1>>)
      r == request_of(d)
      nb == tile_box(g[r[2]], r[3])
      whole == <<"all", "all">>
      strip == pixels_under(own, slice_parts[d], s)
      islc == <<mirror(slice_parts[d][1]), mirror(slice_parts[d][2])>>
  IN /\ pixels_under(own, whole, s) \cap pixels_under(nb, whole, s) = strip
     /\ pixels_under(nb, islc, s) = strip

C25_NeighbourCoversSlice ==
  (pc = "blended" /\ logits.h = logits.w) =>
    \A d \in Dirs :
       adjacent[d].present =>
         /\ blended.raised = "none"
         /\ neighbour_covers(d, logits.h)

\* the same for tiles of an even number of pixels per side
C25_EvenTiles ==
  (pc = "blended" /\ logits.h = logits.w /\ logits.h % 2 = 0) =>
    \A d \in Dirs :
       adjacent[d].present =>
         /\ blended.raised = "none"
         /\ neighbour_covers(d, logits.h)

(***************************************************************************)
(* C26: after every iteration of the search loop the counters are          *)
(* conserved: the number of popped tiles equals the outside count plus the *)
(* number of classified (written) tiles, the list of returned tile         *)
(* geometries and the list of per-tile statistics have the same length,    *)
(* each classified tile is counted in at most one of the flooded and       *)
(* large-water-body counters, and the frontier grows only in an iteration  *)
(* that increments the flooded counter.                                    *)
(***************************************************************************)
\* the elements of a list
elements(l) == {l[i] : i \in 1..Len(l)}

CountersConserved ==
  /\ n_visited = Len(visit_tiles)
  /\ n_visited = n_outside + Len(fill_tiles)
  /\ elements(fill_tiles) = out_tif
  /\ Len(fill_tiles) = Cardinality(out_tif)
  /\ Len(fill_tiles) = Len(geom_stats)
  /\ n_flooded + n_permanent <= Len(fill_tiles)
  /\ returned # << >> =>
       Len(returned[1].tiles) = Len(returned[1].stats)

CountedOnce ==
  Iteration =>
    /\ n_flooded' \in {n_flooded, n_flooded + 1}
    /\ n_permanent' \in {n_permanent, n_permanent + 1}
    /\ (n_flooded' - n_flooded) + (n_permanent' - n_permanent)
         <= Len(fill_tiles') - Len(fill_tiles)
    /\ Len(fill_tiles') - Len(fill_tiles) \in {0, 1}
    /\ (elements(tiles') \ elements(tiles) # {} \/ Len(tiles') >= Len(tiles))
         => n_flooded' = n_flooded + 1

C26_CountersConserved == []CountersConserved /\ [][CountedOnce]_vars

\* a search that has popped a tile counted outside, a tile in a large water
\* body and a flooded tile, the last one growing the frontier
C26_Witness ==
  /\ pc = "loop"
  /\ n_visited = 3
  /\ n_outside = 1 /\ n_permanent = 1 /\ n_flooded = 1
  /\ last.flood_logits = "logits"
  /\ ~large_water_body(last.flood_cls)
  /\ tiles # << >>

(***************************************************************************)
(* C27: with n_concurrent worker threads running download_locally, at most *)
(* one thread at a time is inside a Google API call guarded by ssl_lock    *)
(* and at most one inside the reprocessing guarded by ram_lock, and every  *)
(* acquisition of either lock is followed by its release on every path,    *)
(* including when the guarded call raises: a lock is held only while some  *)
(* thread is between its acquire and its release.                          *)
(***************************************************************************)
\* the threads between ssl_lock.acquire() and ssl_lock.release()
inside_ssl ==
  {t \in DOMAIN threads :
     threads[t].pc \in {"gf_call", "gf_release", "ex_call", "ex_release",
                        "poll_call", "poll_release", "dl_call", "dl_release"}}

\* the threads between ram_lock.acquire() and ram_lock.release()
inside_ram ==
  {t \in DOMAIN threads : threads[t].pc \in {"ram_call", "ram_release"}}

\* at most one thread is inside each guarded section
C27_MutualExclusion ==
  pc = "era5" => Cardinality(inside_ssl) <= 1 /\ Cardinality(inside_ram) <= 1

C27_LocksReleased ==
  pc = "era5" =>
    /\ Cardinality(inside_ssl) <= 1 /\ Cardinality(inside_ram) <= 1
    /\ ssl_lock = "locked" => inside_ssl # {}
    /\ ram_lock = "locked" => inside_ram # {}

(***************************************************************************)
(* C28: _export_to_gdrive returns the elapsed time for every export task   *)
(* that reaches a terminal state other than CANCELLING, CANCELLED or       *)
(* FAILED, including a task whose very first status poll is already        *)
(* terminal, and raises the task-failed exception exactly for those three  *)
(* states.                                                                 *)
(***************************************************************************)
C28_ReturnsElapsed ==
  pc = "era5" =>
    \A m \in Months :
       exported[m].result # "uncalled" =>
         /\ exported[m].state \notin KilledStates => exported[m].result = "elapsed"
         /\ exported[m].result = "Exception" <=> exported[m].state \in KilledStates

\* the same for the exports whose loop body ran at least once
C28_ReturnsElapsedAfterPolling ==
  pc = "era5" =>
    \A m \in Months :
       (exported[m].result # "uncalled" /\ exported[m].polled) =>
         /\ exported[m].state \notin KilledStates => exported[m].result = "elapsed"
         /\ exported[m].result = "Exception" <=> exported[m].state \in KilledStates

====
